---- MODULE Spec2Model ----
(***************************************************************************)
(* Thermal-insulation sizing engine (calc-demo).                           *)
(*                                                                         *)
(* Numbers.  The program computes in IEEE doubles; the model computes in   *)
(* fixed point on TLC's 32-bit integers:                                   *)
(*   temperatures            milli-degrees (25 C = 25000, 298.15 K = 298150)*)
(*   lengths                 micrometres   (0.1 mm = 100)                  *)
(*   conductivity, h, R,     millionths    (0.036 = 36000, 7.6923 = 7692308)*)
(*   dimensionless factors                                                 *)
(*   heat flow               milliwatts per metre                          *)
(* Products go through MulDiv, which never overflows; Math.log, Math.pow   *)
(* are evaluated by series (Ln, Exp, Pow).                                 *)
(***************************************************************************)
EXTENDS Integers, Sequences, FiniteSets, TLC

VARIABLES
  pc,          \* "idle", "scan" (inside the thickness scan) or "done"
  op,          \* the entry point of the call in progress or last made
  args,        \* its argument record
  out,         \* what the call did: Returned(..) or Threw(..)
  thickness,   \* the scan's loop variable, in tenths of a millimetre
  iters,       \* iterations of the scan executed by this call
  results,     \* the results state of the calculator component
  hasCalculated

vars == <<pc, op, args, out, thickness, iters, results, hasCalculated>>

MILLI == 10 * 100
MICRO == 1000 * 1000
SafeProduct == 46340 * 46340

(* The element of a one-element set: TheOne({e(x) : x \in {v}}) is e of    *)
(* the value of v, which is computed once.                                 *)
TheOne(S) == CHOOSE r \in S : TRUE

Abs(x) == TheOne({IF v < 0 THEN -v ELSE v : v \in {x}})
Max(a, b) == TheOne({IF v[1] >= v[2] THEN v[1] ELSE v[2] : v \in {<<a, b>>}})
Min(a, b) == TheOne({IF v[1] <= v[2] THEN v[1] ELSE v[2] : v \in {<<a, b>>}})
Sign(x) == IF x < 0 THEN -1 ELSE 1

(* a*b = q*c + r, 0 <= r < c, for a, b >= 0 and 0 < c < 7*10^8, computed   *)
(* without an intermediate above 2^31.                                     *)
RECURSIVE MulDivQR(_, _, _)
MulDivQR(a, b, c) ==
  IF a = 0 \/ b = 0 THEN <<0, 0>>
  ELSE IF b <= SafeProduct \div a THEN <<(a * b) \div c, (a * b) % c>>
  ELSE TheOne({TheOne({<<2 * h[1][1] + (h[2] \div 2) * (a \div c) + r2 \div c,
      r2 % c>>
      : r2 \in {2 * h[1][2] + (h[2] \div 2) * (a % c)}})
    : h \in {<<MulDivQR(a, b \div 2, c), 2 * (b % 2)>>}})

MulDivOfValues(a, b, c) ==
  TheOne({Sign(a) * Sign(b) * (qr[1] + (IF 2 * qr[2] >= c THEN 1 ELSE 0))
    : qr \in {MulDivQR(Abs(a), Abs(b), c)}})

(* a*b/c rounded to nearest, any signs of a and b, c > 0.                  *)
MulDiv(a, b, c) == TheOne({MulDivOfValues(x[1], x[2], x[3])
  : x \in {<<a, b, c>>}})

(* Product and quotient of two values in millionths.                       *)
Mul(a, b) == MulDiv(a, b, MICRO)
Div(a, b) == TheOne({IF d < 0 THEN MulDiv(-a, MICRO, -d) ELSE MulDiv(a, MICRO,
    d)
  : d \in {b}})

(* Math.log of x > 0 (millionths): x = m * 2^k with 1 <= m < 2, and        *)
(* ln m = 2 atanh((m-1)/(m+1)) by its series.                              *)
LN2 == 693147
RECURSIVE LnReduce(_, _)
LnReduce(x, k) ==
  IF x >= 2 * MICRO THEN LnReduce(x \div 2, k + 1)
  ELSE IF x < MICRO THEN LnReduce(2 * x, k - 1)
  ELSE <<x, k>>

(* z + z^3/3 + z^5/5 + z^7/7 + z^9/9 for z2 = z^2                          *)
AtanhSeries(z, z2) ==
  Mul(z, MICRO + Mul(z2, MICRO \div 3 + Mul(z2, MICRO \div 5
                + Mul(z2, MICRO \div 7 + Mul(z2, MICRO \div 9)))))

LnOfValue(x) ==
  TheOne({TheOne({TheOne({mk[2] * LN2 + 2 * AtanhSeries(z, z2)
        : z2 \in {Mul(z, z)}})
      : z \in {MulDiv(mk[1] - MICRO, MICRO, mk[1] + MICRO)}})
    : mk \in {LnReduce(x, 0)}})

Ln(x) == TheOne({LnOfValue(v) : v \in {x}})

(* Math.log(n/d) for integers n, d > 0 in any common unit.                 *)
LnRatio(n, d) ==
  TheOne({IF x[1] >= x[2] THEN Ln(MulDiv(x[1], MICRO, x[2]))
                  ELSE -Ln(MulDiv(x[2], MICRO, x[1])) : x \in {<<n, d>>}})

(* Math.exp of y (millionths): y = k ln2 + r, 0 <= r < ln2, Taylor in r.   *)
RECURSIVE Pow2(_)
Pow2(k) == IF k = 0 THEN 1 ELSE 2 * Pow2(k - 1)

(* 1 + r + r^2/2 + ... + r^7/5040                                          *)
ExpSeries(r) ==
  MICRO + Mul(r, MICRO + Mul(r \div 2, MICRO + Mul(r \div 3, MICRO
        + Mul(r \div 4, MICRO + Mul(r \div 5, MICRO + Mul(r \div 6, MICRO + r \div 7))))))

ExpOfValue(y) ==
  TheOne({TheOne({IF k >= 0 THEN e * Pow2(k) ELSE e \div Pow2(-k)
      : e \in {ExpSeries(y - k * LN2)}})
    : k \in {IF y >= 0 THEN y \div LN2 ELSE -((-y + LN2 - 1) \div LN2)}})

Exp(y) == TheOne({ExpOfValue(v) : v \in {y}})

(* Math.pow(x, p) for x > 0, x and p in millionths.                        *)
Pow(x, p) == IF x = 0 THEN 0 ELSE Exp(Mul(p, Ln(x)))

(***************************************************************************)
(* Material catalog and interpolateLambda (utils/thermal.ts).              *)
(***************************************************************************)

(***************************************************************************)
(* Optional arguments and results of a call.                                *)
(***************************************************************************)

(* An argument left out of a call (undefined) is <<>>, a supplied one <<v>>.*)
Undefined == <<>>
Some(v) == <<v>>
Default(opt, d) == IF opt = Undefined THEN d ELSE opt[1]

(* What a call did: the value it returned (nan: the value is NaN) or the   *)
(* error it threw; the order of its steps ("tempArith": arithmetic on a    *)
(* temperature argument); and the intermediate terms it computed.          *)
Returned(v, tr, info) ==
  [returned |-> TRUE, nan |-> FALSE, val |-> v, err |-> "none", trace |-> tr, info |-> info]
ReturnedNaN(tr, info) ==
  [returned |-> TRUE, nan |-> TRUE, val |-> 0, err |-> "none", trace |-> tr, info |-> info]
Threw(e, tr) ==
  [returned |-> FALSE, nan |-> FALSE, val |-> 0, err |-> e, trace |-> tr, info |-> <<>>]

(* Math.round(x * 1000) / 1000 and Math.ceil(x * 1000) / 1000              *)
(* MATERIALS[name].lambda as Object.keys enumerates it: the integer-like   *)
(* keys '0','20','40','60' ascending first, then the string key '-20'.     *)
(* Each entry is <<Number(key) in milli-degrees, lambda in millionths>>.   *)
MATERIALS ==
  [m \in {"ROKAFLEX ST"} |->
     << <<0, 34000>>, <<20000, 36000>>, <<40000, 38000>>, <<60000, 40000>>,
        <<-20000, 32000>> >>]

DefaultLambda == 36000

(* Array.prototype.sort((a, b) => a - b): insertion of each element into   *)
(* the sorted prefix.                                                      *)
RECURSIVE InsertAsc(_, _)
InsertAsc(x, s) ==
  IF s = <<>> THEN <<x>>
  ELSE IF x <= Head(s) THEN <<x>> \o s
  ELSE <<Head(s)>> \o InsertAsc(x, Tail(s))

(* Mutant of SortAsc: the keys are left in enumeration order.              *)
SortAsc_Unsorted(s) == s

RECURSIVE SortAsc(_)
SortAsc(s) == IF s = <<>> THEN <<>> ELSE InsertAsc(Head(s), SortAsc(Tail(s)))

(* Object.keys(lambdaData).map(Number)                                     *)
LambdaKeys(lambdaData) == [i \in 1..Len(lambdaData) |-> lambdaData[i][1]]

(* lambdaData[String(t)]                                                   *)
LambdaAt(lambdaData, t) ==
  LET i == CHOOSE j \in 1..Len(lambdaData) : lambdaData[j][1] = t
  IN  lambdaData[i][2]

(* l0 + (l1 - l0) * (temp - t0) / (t1 - t0)                                *)
LinearInterpolation(t0, l0, t1, l1, temp) ==
  l0 + MulDiv(l1 - l0, temp - t0, t1 - t0)

(* for (let i = 0; i < temps.length - 1; i++) { if (...) {...; break;} }   *)
(* the model's 1-based index i is the code's i + 1.  The result is the     *)
(* value of lambda after the loop and the bracket the loop stopped in      *)
(* (0: no bracket matched, lambda keeps its initial 0.036).                *)
RECURSIVE InterpolateLoop(_, _, _, _)
InterpolateLoop(i, temps, lambdaData, temp) ==
  IF i > Len(temps) - 1 THEN [lambda |-> DefaultLambda, bracket |-> 0]
  ELSE IF temp >= temps[i] /\ temp <= temps[i + 1]
       THEN [lambda |-> LinearInterpolation(
                          temps[i], LambdaAt(lambdaData, temps[i]),
                          temps[i + 1], LambdaAt(lambdaData, temps[i + 1]), temp),
             bracket |-> i]
       ELSE InterpolateLoop(i + 1, temps, lambdaData, temp)

(* Property names every object literal inherits from Object.prototype:     *)
(* MATERIALS[name] finds them on the prototype chain although the catalog  *)
(* has no such material.                                                   *)
ObjectPrototypeNames ==
  {"constructor", "toString", "valueOf", "hasOwnProperty", "__proto__"}

(* MATERIALS[material]: "own" a catalog entry, "inherited" a truthy value  *)
(* from Object.prototype (it has no .lambda), "undefined" otherwise.       *)
MaterialLookup(material) ==
  IF material \in DOMAIN MATERIALS THEN "own"
  ELSE IF material \in ObjectPrototypeNames THEN "inherited"
  ELSE "undefined"

interpolateLambda(temp, material) ==
  CASE MaterialLookup(material) = "undefined" ->
         Returned(DefaultLambda, <<"interpolateLambda">>, [bracket |-> 0])
    [] MaterialLookup(material) = "inherited" ->
         \* materialData.lambda is undefined: Object.keys(undefined) throws
         Threw("TypeError", <<"interpolateLambda", "throw">>)
    [] MaterialLookup(material) = "own" ->
         LET lambdaData == MATERIALS[material]
             temps      == SortAsc(LambdaKeys(lambdaData))
             r          == InterpolateLoop(1, temps, lambdaData, temp)
         IN  Returned(r.lambda, <<"interpolateLambda">>, [bracket |-> r.bracket])

(***************************************************************************)
(* Rounding.                                                               *)
(***************************************************************************)
Round3(x) == ((x + 500) \div 1000) * 1000
Ceil3(x) == ((x + 999) \div 1000) * 1000

CelsiusToKelvin(t) == t + 273150

(* sigma = 5.67e-8 W/(m2 K4), held as sigma * 10^8 with every temperature  *)
(* power taken of T/100:  sigma * T^n = Sigma8 * (T/100)^n * 100^(n-4).    *)
Sigma8 == 5670000

(* T/100 in millionths for T in milli-kelvin.                              *)
Hecto(tK) == tK * 10
Cube(x) == TheOne({Mul(Mul(v, v), v) : v \in {x}})
Fourth(x) == TheOne({Mul(v, v) : v \in {Mul(x, x)}})

(* 4 * epsilon * sigma * Math.pow(T, 3), T in milli-kelvin                 *)
LinearizedRadiation(epsilon, tK) ==
  (4 * Mul(Mul(epsilon, Sigma8), Cube(Hecto(tK)))) \div 100

(* (epsilon * sigma * (T_s^4 - T_a^4)) / deltaT, temperatures milli-kelvin, *)
(* for T_s # T_a; at T_s = T_a the quotient is 0/0 = NaN (ExactIsNaN).     *)
ExactIsNaN(tsK, taK) == tsK = taK

ExactRadiation(epsilon, tsK, taK) ==
  LET dT == tsK - taK
  IN  TheOne({IF dT > 0 THEN MulDiv(num, MILLI, dT) ELSE MulDiv(-num, MILLI,
      -dT)
    : num \in {Mul(Mul(epsilon, Sigma8),
        Fourth(Hecto(tsK)) - Fourth(Hecto(taK)))}})

(***************************************************************************)
(* calculateHCoefficient (utils/thermal/calculations.ts): Standard mode.   *)
(***************************************************************************)
MinAlphaConv == Div(MICRO, 130000)
MaxAlphaRad == 6500000

(* Step 1: deltaT for convection, floored at 1 K                           *)
StandardDeltaT(T_sup, T_amb, T_medium) ==
  IF T_medium # Undefined
  THEN Max(Abs(T_medium[1] - T_amb), 1 * MILLI)
  ELSE Max(Abs(T_sup - T_amb), 1 * MILLI)

(* Steps 2, 3: alpha_conv = max(1.32 * deltaT^0.33, 1/0.13)                *)
StandardAlphaConv(deltaT) ==
  Max(Mul(1320000, Pow(deltaT * MILLI, 330000)), MinAlphaConv)

(* Mutant of StandardRadiationForm: the near-zero guard is missing.        *)
StandardRadiationForm_AlwaysExact(T_sup, T_amb) == "exact"

(* Step 4: which radiation form the branch on |deltaT_K| < 0.01 takes      *)
StandardRadiationForm(T_sup, T_amb) ==
  IF Abs(CelsiusToKelvin(T_sup) - CelsiusToKelvin(T_amb)) < 10
  THEN "linearized" ELSE "exact"

(* Step 4: alpha_rad before the cap                                        *)
StandardAlphaRadRaw(T_sup, T_amb, epsilon) ==
  LET T_sup_K == CelsiusToKelvin(T_sup)
      T_amb_K == CelsiusToKelvin(T_amb)
  IN  IF StandardRadiationForm(T_sup, T_amb) = "linearized"
      THEN LinearizedRadiation(epsilon, (T_sup_K + T_amb_K) \div 2)
      ELSE ExactRadiation(epsilon, T_sup_K, T_amb_K)

(* Mutant of StandardAlphaRad: the cap of 6.5 is missing.                  *)
StandardAlphaRad_NoCap(T_sup, T_amb, epsilon) ==
  StandardAlphaRadRaw(T_sup, T_amb, epsilon)

(* Step 5: alpha_rad = Math.min(alpha_rad, 6.5)                            *)
StandardAlphaRad(T_sup, T_amb, epsilon) ==
  Min(StandardAlphaRadRaw(T_sup, T_amb, epsilon), MaxAlphaRad)

(* Step 7: safetyFactor = applySafetyFactor ? 0.75 : 1.0                   *)
ApplySafety(h_raw, applySafetyFactor) ==
  IF applySafetyFactor THEN (h_raw * 3) \div 4 ELSE h_raw

calculateHCoefficient(T_sup, T_amb, T_medium, epsilon, applySafetyFactorOpt) ==
  LET applySafetyFactor == Default(applySafetyFactorOpt, TRUE)
      enter == <<"calculateHCoefficient", "validateEmissivity">>
  IN  IF epsilon < 0 \/ epsilon > MICRO
      THEN Threw("InvalidEmissivity", enter \o <<"throw">>)
      ELSE LET deltaT == StandardDeltaT(T_sup, T_amb, T_medium)
               form   == StandardRadiationForm(T_sup, T_amb)
               steps  == enter \o <<"tempArith">>
           IN  IF form = "exact"
                  /\ ExactIsNaN(CelsiusToKelvin(T_sup), CelsiusToKelvin(T_amb))
               THEN ReturnedNaN(steps, [deltaT |-> deltaT, form |-> form])
               ELSE TheOne({Returned(Round3(ApplySafety(t.alpha_conv + t.alpha_rad,
                                                       applySafetyFactor)),
                                    steps,
                                    [deltaT |-> deltaT, form |-> form,
                                     alpha_conv |-> t.alpha_conv,
                                     alpha_rad |-> t.alpha_rad])
                                 : t \in {[alpha_conv |-> StandardAlphaConv(deltaT),
                                       alpha_rad |-> StandardAlphaRad(T_sup, T_amb,
                                           epsilon)]}})

(***************************************************************************)
(* calculateKFlexH (utils/thermal/kflex-algorithm.ts): KFlexCalibrated.    *)
(***************************************************************************)
KFlexBaseCoeff(deltaT, orientation, forCondensation) ==
  IF forCondensation
  THEN LET deltaFrom30 == deltaT - 30 * MILLI
           adaptiveCoeff == IF orientation = "horizontal"
                            THEN 1646000 - MulDiv(5700, deltaFrom30, MILLI)
                            ELSE 1800000 - MulDiv(6300, deltaFrom30, MILLI)
       IN  Max(adaptiveCoeff, IF orientation = "horizontal" THEN 1440000 ELSE 1580000)
  ELSE IF orientation = "horizontal" THEN 1646000 ELSE 1800000

(* tubeDiameter and insulationThickness in micrometres, D_ref = 0.043 m    *)
KFlexAlphaConv(deltaT, orientation, tubeDiameter, insulationThickness, forCondensation) ==
  LET power == IF orientation = "horizontal" THEN 330000 ELSE 250000
      alphaConvBase == Mul(KFlexBaseCoeff(deltaT, orientation, forCondensation),
                           Pow(deltaT * MILLI, power))
  IN  IF /\ tubeDiameter # Undefined
         /\ insulationThickness # Undefined
         /\ tubeDiameter[1] > 0
         /\ insulationThickness[1] >= 0
      THEN LET D_outer == tubeDiameter[1] + 2 * insulationThickness[1]
               powerCorrection == IF forCondensation THEN 150000 ELSE 100000
               correction == Pow(MulDiv(43000, MICRO, D_outer), powerCorrection)
           IN  Mul(alphaConvBase, correction)
      ELSE alphaConvBase

(* Mutant of calculateKFlexH: deltaT is computed before epsilon is checked. *)
calculateKFlexH_ArithFirst(T_amb, T_medium, epsilon, orientationOpt, tubeDiameter, insulationThickness, forCondensationOpt) ==
  LET orientation == Default(orientationOpt, "horizontal")
      forCondensation == Default(forCondensationOpt, FALSE)
      deltaT == Max(Abs(T_medium - T_amb), 1 * MILLI)
      enter == <<"calculateKFlexH", "tempArith", "validateEmissivity">>
  IN  IF epsilon < 0 \/ epsilon > MICRO
      THEN Threw("InvalidEmissivity", enter \o <<"throw">>)
      ELSE TheOne({Returned(Round3(t.alpha_conv + t.alpha_rad), enter, t)
        : t \in {[alpha_conv |-> KFlexAlphaConv(deltaT, orientation,
            tubeDiameter, insulationThickness, forCondensation),
                alpha_rad |-> LinearizedRadiation( epsilon,
                    CelsiusToKelvin((T_amb + T_medium) \div 2))]}})

calculateKFlexH(T_amb, T_medium, epsilon, orientationOpt, tubeDiameter, insulationThickness, forCondensationOpt) ==
  LET orientation == Default(orientationOpt, "horizontal")
      forCondensation == Default(forCondensationOpt, FALSE)
      enter == <<"calculateKFlexH", "validateEmissivity">>
  IN  IF epsilon < 0 \/ epsilon > MICRO
      THEN Threw("InvalidEmissivity", enter \o <<"throw">>)
      ELSE LET deltaT == Max(Abs(T_medium - T_amb), 1 * MILLI)
               T_meanK == CelsiusToKelvin((T_amb + T_medium) \div 2)
           IN  TheOne({Returned(Round3(t.alpha_conv + t.alpha_rad),
                                        enter \o <<"tempArith">>, t)
                                    : t \in {[alpha_conv |-> KFlexAlphaConv(deltaT,
                                              orientation, tubeDiameter,
                                              insulationThickness, forCondensation),
                                          alpha_rad |-> LinearizedRadiation(epsilon,
                                              T_meanK)]}})

(***************************************************************************)
(* calculateAdvancedH, calculateAdvancedH_Sheets                           *)
(* (utils/thermal/advanced-algorithm.ts): AdvancedPipe, AdvancedSheet.     *)
(***************************************************************************)

(* The convective term before its rounding; D_ref = 0.000955 * d[mm] + 0.0244 m *)
AdvancedAlphaConvRaw(deltaT_conv, orientation, tubeDiameter, insulationThickness) ==
  LET baseCoeff == IF orientation = "horizontal" THEN 1646000 ELSE 1800000
      power == IF orientation = "horizontal" THEN 330000 ELSE 250000
      alpha_conv_base == Mul(baseCoeff, Pow(deltaT_conv * MILLI, power))
  IN  IF /\ tubeDiameter # Undefined
         /\ insulationThickness # Undefined
         /\ tubeDiameter[1] > 0
         /\ insulationThickness[1] >= 0
      THEN LET D_outer == tubeDiameter[1] + 2 * insulationThickness[1]
               D_ref == MulDiv(955, tubeDiameter[1], MILLI) + 24400
               diameterCorrection == Pow(MulDiv(D_ref, MICRO, D_outer), 474000)
           IN  Mul(alpha_conv_base, diameterCorrection)
      ELSE alpha_conv_base

(* Mutant of AdvancedAlphaConv: rounded to nearest instead of up.          *)
AdvancedAlphaConv_Nearest(deltaT_conv, orientation, tubeDiameter, insulationThickness) ==
  Round3(AdvancedAlphaConvRaw(deltaT_conv, orientation, tubeDiameter, insulationThickness))

(* alpha_conv = Math.ceil(alpha_conv * 1000) / 1000                        *)
AdvancedAlphaConv(deltaT_conv, orientation, tubeDiameter, insulationThickness) ==
  Ceil3(AdvancedAlphaConvRaw(deltaT_conv, orientation, tubeDiameter, insulationThickness))

(* T_rad = T_mean + 0.75, linearized Stefan-Boltzmann                      *)
AdvancedAlphaRad(T_amb, T_medium, epsilon) ==
  LET T_mean == (T_amb + T_medium) \div 2
      T_rad == T_mean + 750
  IN  LinearizedRadiation(epsilon, CelsiusToKelvin(T_rad))

calculateAdvancedH(T_amb, T_medium, epsilon, orientationOpt, tubeDiameter, insulationThickness) ==
  LET orientation == Default(orientationOpt, "horizontal")
      enter == <<"calculateAdvancedH", "validateEmissivity">>
  IN  IF epsilon < 0 \/ epsilon > MICRO
      THEN Threw("InvalidEmissivity", enter \o <<"throw">>)
      ELSE LET deltaT_conv == Max(Abs(T_medium - T_amb), 1 * MILLI)
           IN  TheOne({Returned(Round3(t.alpha_conv + t.alpha_rad),
                                        enter \o <<"tempArith">>, t)
                                    : t \in {[alpha_conv_raw |-> AdvancedAlphaConvRaw(deltaT_conv,
                                              orientation, tubeDiameter,
                                              insulationThickness),
                                          alpha_conv |-> AdvancedAlphaConv(deltaT_conv,
                                              orientation, tubeDiameter,
                                              insulationThickness),
                                          alpha_rad |-> AdvancedAlphaRad(T_amb,
                                              T_medium, epsilon)]}})

SheetsAlphaConv(T_amb, deltaT_conv) ==
  LET alpha_conv_raw ==
        IF T_amb >= 20 * MILLI
        THEN Mul(1320000, Pow(deltaT_conv * MILLI, 330000))
        ELSE LET convCoeff == 1320000 - MulDiv(17000, 20 * MILLI - T_amb, MILLI)
             IN  Mul(convCoeff, Pow(deltaT_conv * MILLI, 330000))
  IN  Max(alpha_conv_raw, MinAlphaConv)

SheetsAlphaRad(T_amb, T_medium, epsilon) ==
  LET T_mean == (T_amb + T_medium) \div 2
      radCoeff == IF T_mean >= 10 * MILLI
                  THEN 2628000 - MulDiv(29500, 25 * MILLI - T_mean, MILLI)
                  ELSE 1400000
  IN  Mul(epsilon, Max(radCoeff, 1400000))

(* Mutant of calculateAdvancedH_Sheets: the factor 0.75 is left out.       *)
calculateAdvancedH_Sheets_NoSafety(T_amb, T_medium, epsilon) ==
  IF epsilon < 0 \/ epsilon > MICRO
  THEN Threw("InvalidEmissivity",
             <<"calculateAdvancedH_Sheets", "validateEmissivity", "throw">>)
  ELSE Returned(Round3(SheetsAlphaConv(T_amb, Max(Abs(T_medium - T_amb), 1 * MILLI))
                       + SheetsAlphaRad(T_amb, T_medium, epsilon)),
                <<"calculateAdvancedH_Sheets", "validateEmissivity", "tempArith">>,
                [alpha_conv |-> SheetsAlphaConv(T_amb,
                                                Max(Abs(T_medium - T_amb), 1 * MILLI)),
                 alpha_rad |-> SheetsAlphaRad(T_amb, T_medium, epsilon)])

calculateAdvancedH_Sheets(T_amb, T_medium, epsilon) ==
  LET enter == <<"calculateAdvancedH_Sheets", "validateEmissivity">>
  IN  IF epsilon < 0 \/ epsilon > MICRO
      THEN Threw("InvalidEmissivity", enter \o <<"throw">>)
      ELSE LET deltaT_conv == Max(Abs(T_medium - T_amb), 1 * MILLI)
           IN  TheOne({Returned(Round3(((t.alpha_conv + t.alpha_rad) * 3) \div 4),
                                        enter \o <<"tempArith">>, t)
                                    : t \in {[alpha_conv |-> SheetsAlphaConv(T_amb,
                                              deltaT_conv),
                                          alpha_rad |-> SheetsAlphaRad(T_amb, T_medium,
                                              epsilon)]}})

(***************************************************************************)
(* The Nusselt-number path of computeH (utils/thermal.ts helpers).         *)
(* Grashof and Rayleigh numbers span twenty decades, so they are carried   *)
(* as their natural logarithms; Ra = 0 (deltaT = 0) is ZeroRa, else <<ln Ra>>.  *)
(***************************************************************************)
ZeroRa == <<>>

(* ln of 1.34e-5 * (T/273.15)^1.5                                          *)
LnKinematicViscosity(tempCelsius) ==
  LnRatio(134, 10000) - Ln(1000 * MICRO)
    + MulDiv(3, LnRatio(CelsiusToKelvin(tempCelsius), 273150), 2)

(* 0.0242 + 0.0000726 * tempCelsius                                        *)
AirThermalConductivity(tempCelsius) == 24200 + MulDiv(726, tempCelsius, 10 * MILLI)

(* ln Ra = ln(g beta |deltaT| L^3 / nu^2 * Pr), g = 9.81, beta = 1/T, Pr = 0.71; *)
(* deltaT in milli-kelvin, characteristicLength in micrometres             *)
LnRayleigh(meanTemp, deltaT, characteristicLength) ==
  IF deltaT = 0 \/ characteristicLength = 0 THEN ZeroRa
  ELSE << LnRatio(981, 100) - LnRatio(CelsiusToKelvin(meanTemp), MILLI)
          + LnRatio(Abs(deltaT), MILLI) + 3 * LnRatio(characteristicLength, MICRO)
          - 2 * LnKinematicViscosity(meanTemp) + LnRatio(71, 100) >>

(* Ra < 1e-5 ? 0.4 : (0.6 + 0.387 Ra^(1/6) / (1 + (0.559/0.71)^(9/16))^(8/27))^2 *)
NusseltHorizontalOfValue(lnRa) ==
  IF lnRa = ZeroRa \/ lnRa[1] < -5 * Ln(10 * MICRO) THEN 400000
  ELSE LET den == Pow(MICRO + Pow(Div(559000, 710000), 562500), 296296)
       IN  TheOne({Mul(600000 + term2, 600000 + term2)
         : term2 \in {Div(Mul(387000, Exp(lnRa[1] \div 6)), den)}})

calculateNusseltHorizontal(lnRa) == TheOne({NusseltHorizontalOfValue(v)
  : v \in {lnRa}})

(* Ra < 1e4 ? 0.59 Ra^0.25 : 0.1 Ra^0.333                                  *)
NusseltVerticalOfValue(lnRa) ==
  IF lnRa = ZeroRa THEN 0
  ELSE IF lnRa[1] < 4 * Ln(10 * MICRO)
       THEN Mul(590000, Exp(lnRa[1] \div 4))
       ELSE Mul(100000, Exp(Mul(333000, lnRa[1])))

calculateNusseltVertical(lnRa) == TheOne({NusseltVerticalOfValue(v)
  : v \in {lnRa}})

(* calculateRadiativeHeatTransfer(emissivity, T_surface, T_ambient), kelvin *)
calculateRadiativeHeatTransfer(emissivity, T_surface, T_ambient) ==
  IF Abs(T_surface - T_ambient) < 10
  THEN LinearizedRadiation(emissivity, (T_surface + T_ambient) \div 2)
  ELSE ExactRadiation(emissivity, T_surface, T_ambient)

(* h_conv + h_rad of the Nusselt path; effectiveDiameter in micrometres > 0 *)
NusseltH(ambientTemp, mediumTemp, effectiveDiameter, orientation, emissivity) ==
  LET T_ambient == CelsiusToKelvin(ambientTemp)
      meanTemp == (ambientTemp + mediumTemp) \div 2
      deltaT_estimate == Abs(mediumTemp - ambientTemp)
      T_surface_estimate == T_ambient + MulDiv(3, mediumTemp - ambientTemp, 10)
      lnRa == LnRayleigh(meanTemp, deltaT_estimate, effectiveDiameter)
      nusseltNumber == IF orientation = "horizontal"
                       THEN calculateNusseltHorizontal(lnRa)
                       ELSE calculateNusseltVertical(lnRa)
      h_conv == MulDiv(Mul(nusseltNumber, AirThermalConductivity(meanTemp)),
                       MICRO, effectiveDiameter)
      h_rad == calculateRadiativeHeatTransfer(emissivity, T_surface_estimate, T_ambient)
  IN  h_conv + h_rad

(***************************************************************************)
(* computeH (hooks/useHeatTransferCoefficient.ts).                         *)
(* a: the argument record; its optional fields are Undefined or Some(v).   *)
(***************************************************************************)

(* const effectiveDiameter = insulationThickness ? d + 2 t : d  (0 is falsy) *)
EffectiveDiameter(tubeDiameter, insulationThickness) ==
  IF insulationThickness # Undefined /\ insulationThickness[1] # 0
  THEN tubeDiameter + 2 * insulationThickness[1]
  ELSE tubeDiameter

(* T_sup: ambientTemp + 0.3 * (mediumTemp - ambientTemp)                   *)
SurfaceEstimate(ambientTemp, mediumTemp) ==
  ambientTemp + MulDiv(3, mediumTemp - ambientTemp, 10)

(* Mutant of ComputeHBranch: useSimplifiedFormula defaults to false.       *)
(* Mutant of ComputeHBranch: useAdvancedAlgorithm tested before            *)
(* useAdvancedSheetsAlgorithm.                                            *)
ComputeHBranch_AdvancedFirst(a) ==
  IF Default(a.useKFlexAlgorithm, FALSE) THEN "calculateKFlexH"
  ELSE IF Default(a.useAdvancedAlgorithm, FALSE) THEN "calculateAdvancedH"
  ELSE IF Default(a.useAdvancedSheetsAlgorithm, FALSE) THEN "calculateAdvancedH_Sheets"
  ELSE IF Default(a.useSimplifiedFormula, TRUE) THEN "calculateHCoefficient"
  ELSE "nusselt"

ComputeHBranch_DefaultNusselt(a) ==
  IF Default(a.useKFlexAlgorithm, FALSE) THEN "calculateKFlexH"
  ELSE IF Default(a.useAdvancedSheetsAlgorithm, FALSE) THEN "calculateAdvancedH_Sheets"
  ELSE IF Default(a.useAdvancedAlgorithm, FALSE) THEN "calculateAdvancedH"
  ELSE IF Default(a.useSimplifiedFormula, FALSE) THEN "calculateHCoefficient"
  ELSE "nusselt"

(* The branch of computeH a call takes, by its if-chain.                   *)
ComputeHBranch(a) ==
  IF Default(a.useKFlexAlgorithm, FALSE) THEN "calculateKFlexH"
  ELSE IF Default(a.useAdvancedSheetsAlgorithm, FALSE) THEN "calculateAdvancedH_Sheets"
  ELSE IF Default(a.useAdvancedAlgorithm, FALSE) THEN "calculateAdvancedH"
  ELSE IF Default(a.useSimplifiedFormula, TRUE) THEN "calculateHCoefficient"
  ELSE "nusselt"

(* Lines 96-111 run before either of the last two branches: temperature    *)
(* arithmetic, then the callee's own steps.                                *)
AfterPrelude(r) == [r EXCEPT !.trace = <<"tempArith">> \o @]

computeH(a) ==
  LET branch == ComputeHBranch(a)
  IN  CASE branch = "calculateKFlexH" ->
             calculateKFlexH(a.ambientTemp, a.mediumTemp, a.emissivity,
                             Some(a.orientation), Some(a.tubeDiameter),
                             a.insulationThickness, Some(Default(a.forCondensation, FALSE)))
        [] branch = "calculateAdvancedH_Sheets" ->
             calculateAdvancedH_Sheets(a.ambientTemp, a.mediumTemp, a.emissivity)
        [] branch = "calculateAdvancedH" ->
             calculateAdvancedH(a.ambientTemp, a.mediumTemp, a.emissivity,
                                Some(a.orientation), Some(a.tubeDiameter),
                                a.insulationThickness)
        [] branch = "calculateHCoefficient" ->
             AfterPrelude(
               calculateHCoefficient(SurfaceEstimate(a.ambientTemp, a.mediumTemp),
                                     a.ambientTemp, Some(a.mediumTemp), a.emissivity,
                                     Some(Default(a.applySafetyFactor, TRUE))))
        [] OTHER ->
             AfterPrelude(
               Returned(NusseltH(a.ambientTemp, a.mediumTemp,
                                 EffectiveDiameter(a.tubeDiameter, a.insulationThickness),
                                 a.orientation, a.emissivity),
                        <<"nusselt", "tempArith">>, <<>>))


(***************************************************************************)
(* Pipe heat-loss calculator (components/calculators/pipes/                *)
(* HeatLossCalculator.tsx and the heat-loss helpers).  Radii and           *)
(* thicknesses in micrometres, resistances in millionths of m K/W, heat    *)
(* flows in mW/m, percentages in thousandths of a percent.                 *)
(***************************************************************************)
TwoPi == 6283185

LambdaPipe == 50 * MICRO

(* Mutant of ReferenceTemperature: the mean of the two temperatures.       *)
ReferenceTemperature_Mean(ambientTemp, mediumTemp) ==
  (ambientTemp + mediumTemp) \div 2

(* T_lambda = ambientTemp + 0.533 * (mediumTemp - ambientTemp) + 21        *)
ReferenceTemperature(ambientTemp, mediumTemp) ==
  ambientTemp + MulDiv(533, mediumTemp - ambientTemp, MILLI) + 21 * MILLI

(* The statements of calculateHeatLosses after its validation, for the    *)
(* two heat flows q = <<heatLoss, heatLossUninsulated>>; info.nan names    *)
(* the fields that are NaN (0/0).                                          *)
HeatLossesOfFlows(q, warned) ==
  [returned |-> TRUE, nan |-> q[2] = 0, val |-> q[1], err |-> "none",
   trace |-> IF warned THEN <<"calculateHeatLosses", "warn">>
             ELSE <<"calculateHeatLosses">>,
   info |-> [heatLoss |-> q[1],
             heatLossUninsulated |-> q[2],
             decrease |-> IF q[2] = 0 THEN 0
                          ELSE MulDiv(q[2] - q[1], 100 * MILLI, q[2]),
             nan |-> IF q[2] = 0 THEN {"decrease"} ELSE {}]]

(* Math.abs(deltaT) / R for R > 0; a resistance of 500 m K/W and more is   *)
(* divided in thousandths, which keeps the division inside the integers.  *)
HeatFlow(deltaT, R) ==
  IF R >= 500 * MICRO THEN MulDiv(Abs(deltaT), MILLI, R \div 1000)
  ELSE MulDiv(Abs(deltaT), MICRO, R)

calculateHeatLosses(deltaT, R_total, R_total_uninsulated) ==
  TheOne({IF x[2] <= 0 THEN Threw("InvalidResistance", <<"calculateHeatLosses", "throw">>)
         ELSE IF x[3] <= 0
         THEN Threw("InvalidResistance", <<"calculateHeatLosses", "throw">>)
         ELSE HeatLossesOfFlows(<<HeatFlow(x[1], x[2]), HeatFlow(x[1], x[3])>>,
                                x[2] <= x[3]) : x \in {<<deltaT, R_total, R_total_uninsulated>>}})

(* (heatLoss * pipeLength / 1000) * costPerKWh, in millionths              *)
calculateEconomicData(heatLoss, pipeLength, costPerKWh) ==
  MulDiv(MulDiv(heatLoss, pipeLength, MILLI), costPerKWh, MILLI)

(* The keys 'd/t' of conversionTable, in millimetres; every entry maps its *)
(* key to the diameter d of the key.                                       *)
ConversionKeys ==
  ({6, 8, 10, 12, 15} \X {6, 9, 13})
  \cup ({18} \X {6, 9, 13, 19, 25})
  \cup ({22, 25, 28, 35, 42} \X {6, 9, 13, 19, 25, 32})
  \cup ({48, 54, 60, 76, 89, 114} \X {9, 13, 19, 25, 32})

calculateRokaflexDimension(tubeDiameter, insulationThickness) ==
  IF \E k \in ConversionKeys :
       k[1] * MILLI = tubeDiameter /\ k[2] * MILLI = insulationThickness
  THEN (CHOOSE k \in ConversionKeys :
          k[1] * MILLI = tubeDiameter /\ k[2] * MILLI = insulationThickness)[1] * MILLI
  ELSE tubeDiameter

InitialResults ==
  [meanLambda |-> 0, thermalTransmittance |-> 0, heatLoss |-> 0, decrease |-> 0,
   costPerHour |-> 0, rokaflexDimension |-> 0, recommendedThicknessMm |-> Undefined,
   nan |-> {}]

(* The arguments of the handler's computeH call for the bare pipe.         *)
UninsulatedHArgs(a) ==
  [ambientTemp |-> a.ambientTemp, mediumTemp |-> a.mediumTemp,
   tubeDiameter |-> a.tubeDiameter, orientation |-> a.orientation,
   emissivity |-> a.emissivity, calculationType |-> Some("inside"),
   windSpeed |-> Undefined, insulationThickness |-> Some(0),
   useSimplifiedFormula |-> Some(FALSE), applySafetyFactor |-> Some(FALSE),
   useAdvancedAlgorithm |-> Some(FALSE), useAdvancedSheetsAlgorithm |-> Some(FALSE),
   useKFlexAlgorithm |-> Some(TRUE), forCondensation |-> Undefined]

(* R_pipe: the resistance of the pipe wall, zero without a wall           *)
PipeWallResistance(a) ==
  LET rOuterPipe == a.tubeDiameter \div 2
      rInnerPipe == Max(1, rOuterPipe - a.pipeWallThickness)
  IN  IF a.pipeWallThickness > 0 /\ rInnerPipe < rOuterPipe
      THEN Div(LnRatio(rOuterPipe, rInnerPipe), Mul(TwoPi, LambdaPipe))
      ELSE 0

(* R_cond = Math.log(ro / rOuterPipe) / (2 * Math.PI * lambda)             *)
InsulationResistance(a, lambda) ==
  LET rOuterPipe == a.tubeDiameter \div 2
      ro == rOuterPipe + a.insulationThickness
  IN  Div(LnRatio(ro, rOuterPipe), Mul(TwoPi, lambda))

(* 1 / (h * 2 * Math.PI * r), r in micrometres                             *)
ConvectionResistance(h, r) == Div(MICRO, Mul(Mul(h, TwoPi), r))

(* hUninsulated *= Math.pow(25 / tubeDiameter, 0.2)                        *)
BoostUninsulatedH(h, tubeDiameter) ==
  IF tubeDiameter > 0 THEN Mul(h, Pow(Div(25 * MILLI, tubeDiameter), 200000)) ELSE h

(* The statements of the handler from calculateHeatLosses to setResults.   *)
HeatLossResults(a, T_lambda, lam, hUninsulated, losses) ==
  LET deltaT == a.mediumTemp - a.ambientTemp
      heatLossPerMeter == losses.info.heatLoss
  IN  IF ~losses.returned
      THEN Threw(losses.err, <<"validate", "interpolateLambda", "computeH">> \o losses.trace)
      ELSE Returned(heatLossPerMeter,
                    <<"validate", "interpolateLambda", "computeH">> \o losses.trace
                      \o <<"setResults">>,
                    [set |-> TRUE,
                     T_lambda |-> T_lambda,
                     bracket |-> lam.info.bracket,
                     hUninsulated |-> hUninsulated,
                     results |->
                       [meanLambda |-> lam.val,
                        thermalTransmittance |->
                          IF deltaT = 0 THEN 0
                          ELSE MulDiv(heatLossPerMeter, MICRO, Abs(deltaT)),
                        heatLoss |-> MulDiv(heatLossPerMeter, a.pipeLength, MILLI),
                        decrease |-> losses.info.decrease,
                        costPerHour |->
                          calculateEconomicData(heatLossPerMeter, a.pipeLength,
                                                a.costPerKWh),
                        rokaflexDimension |->
                          calculateRokaflexDimension(a.tubeDiameter,
                                                     a.insulationThickness),
                        recommendedThicknessMm |-> Undefined,
                        nan |-> losses.info.nan
                                \cup (IF deltaT = 0 THEN {"thermalTransmittance"}
                                      ELSE {})]])

(* The handler from the resistances on, for the conductivity lam and the   *)
(* bare-pipe coefficient hU its calls returned.                            *)
HeatLossFromCoefficients(a, T_lambda, lam, hU) ==
  TheOne({TheOne({HeatLossResults(a, T_lambda, lam, r.hUninsulated, losses)
      : losses \in {calculateHeatLosses( a.mediumTemp - a.ambientTemp,
          r.R_pipe + r.R_cond + r.R_conv,
              r.R_pipe + ConvectionResistance(r.hUninsulated,
                  a.tubeDiameter \div 2))}})
    : r \in {[R_pipe |-> PipeWallResistance(a),
        R_cond |-> InsulationResistance(a, lam.val),
            R_conv |-> ConvectionResistance( a.h,
                a.tubeDiameter \div 2 + a.insulationThickness),
                    hUninsulated |-> BoostUninsulatedH(hU.val,
                        a.tubeDiameter)]}})

(* calculateHeatLoss of the pipes calculator: what the handler does with   *)
(* the store and local parameters a.  info.set = FALSE: the validation     *)
(* returned; otherwise the call threw or reached setResults with           *)
(* info.results.                                                           *)
calculateHeatLoss(a) ==
  IF a.insulationThickness <= 0 \/ a.pipeLength <= 0 \/ a.h <= 0
  THEN Returned(0, <<"validate", "return">>, [set |-> FALSE])
  ELSE
    TheOne({TheOne({IF ~lam.returned THEN Threw(lam.err, <<"validate">> \o lam.trace)
                  ELSE TheOne({IF ~hU.returned
                              THEN Threw(hU.err,
                                         <<"validate", "interpolateLambda">> \o hU.trace)
                              ELSE HeatLossFromCoefficients(a, T_lambda, lam, hU)
                          : hU \in {computeH(UninsulatedHArgs(a))}})
                          : lam \in {interpolateLambda(T_lambda, a.material)}})
                          : T_lambda \in {ReferenceTemperature(a.ambientTemp,
                                    a.mediumTemp)}})

(***************************************************************************)
(* calculateMinimumThickness (utils/condensation.ts).  The scan thickness  *)
(* is counted in tenths of a millimetre: the code's thickness after k      *)
(* additions of 0.1 is the k-th value of the scan.                         *)
(***************************************************************************)
SafetyMargin == 400
ScanStart == 1
ScanCeiling == 1000
ExhaustedResult == 500

(* Mutant of MinimumThicknessCheck: the target check is missing.           *)
MinimumThicknessCheck_NoTarget(a) ==
  IF a.tubeDiameter <= 0 THEN "InvalidGeometry"
  ELSE IF a.h <= 0 THEN "InvalidCoefficient"
  ELSE IF a.dewPoint >= a.ambientTemp THEN "InvalidHumidity"
  ELSE "ok"

(* The checks before the search, in the order of the code.                 *)
MinimumThicknessCheck(a) ==
  IF a.tubeDiameter <= 0 THEN "InvalidGeometry"
  ELSE IF a.h <= 0 THEN "InvalidCoefficient"
  ELSE IF a.dewPoint >= a.ambientTemp THEN "InvalidHumidity"
  ELSE IF a.dewPoint + SafetyMargin > a.ambientTemp THEN "UnreachableTarget"
  ELSE "ok"

TargetSurfaceTemp(a) == a.dewPoint + SafetyMargin

(* The body of one iteration: surfaceTemp at scan thickness th (tenths).   *)
(* Mutant of SurfaceTemp: the drop across the insulation counted twice.    *)
SurfaceTemp_DoubleDrop(a, lambda, th) ==
  LET ri == a.tubeDiameter \div 2
      ro == ri + th * 100
      R_ins == Div(LnRatio(ro, ri), Mul(TwoPi, lambda))
      R_conv == Div(MICRO, Mul(Mul(a.h, TwoPi), ro))
      R_total == R_ins + R_conv
      deltaT == a.mediumTemp - a.ambientTemp
      heatFlow == MulDiv(deltaT * MILLI, MICRO, R_total)
      drop == MulDiv(heatFlow, R_ins, MICRO)
  IN  a.mediumTemp - 2 * MulDiv(drop, 1, MILLI)

SurfaceTemp(a, lambda, th) ==
  LET ri == a.tubeDiameter \div 2
      ro == ri + th * 100
      R_ins == Div(LnRatio(ro, ri), Mul(TwoPi, lambda))
      R_conv == Div(MICRO, Mul(Mul(a.h, TwoPi), ro))
      R_total == R_ins + R_conv
      deltaT == a.mediumTemp - a.ambientTemp
      heatFlow == MulDiv(deltaT * MILLI, MICRO, R_total)      \* microwatts per metre
      drop == MulDiv(heatFlow, R_ins, MICRO)                  \* millionths of a degree
  IN  a.mediumTemp - MulDiv(drop, 1, MILLI)

(* Mutant of NextThickness: the scan does not advance.                     *)
NextThickness_Stuck(th) == th

(* Mutant of NextThickness: the scan advances by two steps.                *)
NextThickness_Skip(th) == th + 2

(* thickness += 0.1                                                        *)
NextThickness(th) == th + 1

(***************************************************************************)
(* calculateDewPoint (utils/thermal/calculations.ts, re-exported by        *)
(* utils/condensation.ts).  T in thousandths of a degree, UR in            *)
(* thousandths of a percent; gamma in millionths.  The result is           *)
(* [nan, val]: nan where the floating-point result is NaN.                 *)
(***************************************************************************)
MagnusB == 17620000
MagnusC == 243120

(* a * b / c for any sign of c # 0                                         *)
SignedMulDiv(a, b, c) == IF c > 0 THEN MulDiv(a, b, c) ELSE MulDiv(-a, b, -c)

(* gamma = Math.log(UR / 100) + (17.62 * T) / (243.12 + T)                 *)
DewPointGamma(T, UR) == Ln(UR * 10) + SignedMulDiv(MagnusB, T, MagnusC + T)

(* Mutant of DewPointOfGamma: the quotient is taken the other way round.   *)
DewPointOfGamma_Inverted(gamma) ==
  IF gamma = 0 THEN [nan |-> TRUE, val |-> 0]
  ELSE [nan |-> FALSE, val |-> SignedMulDiv(MagnusC, MagnusB - gamma, gamma)]

(* T_dew = (243.12 * gamma) / (17.62 - gamma); x / 0 is an infinity        *)
DewPointOfGamma(gamma) ==
  IF gamma = MagnusB THEN [nan |-> FALSE, val |-> 1000 * MICRO]
  ELSE [nan |-> FALSE, val |-> SignedMulDiv(MagnusC, gamma, MagnusB - gamma)]

(* UR <= 0: Math.log gives -Infinity or NaN; 243.12 + T = 0: the quotient  *)
(* is -Infinity; in each case T_dew is NaN.                                *)
calculateDewPoint(T, UR) ==
  IF UR <= 0 \/ MagnusC + T = 0 THEN [nan |-> TRUE, val |-> 0]
  ELSE TheOne({DewPointOfGamma(g) : g \in {DewPointGamma(T, UR)}})

(***************************************************************************)
(* calculateMinimumThickness as one call: the loop of the stepwise model   *)
(* above, run to its end.                                                  *)
(***************************************************************************)
(* The first thickness of lo..hi, in the order of the loop, whose test     *)
(* surfaceTemp >= targetSurfaceTemp succeeds; 0 when none does.  The       *)
(* thicknesses are tested in ascending order and none after the first      *)
(* success; the range is halved to keep the evaluation shallow.            *)
RECURSIVE FirstSatisfying(_, _, _, _)
FirstSatisfying(a, lambda, lo, hi) ==
  IF lo = hi
  THEN IF SurfaceTemp(a, lambda, lo) >= TargetSurfaceTemp(a) THEN lo ELSE 0
  ELSE TheOne({IF first # 0 THEN first
               ELSE FirstSatisfying(a, lambda, (lo + hi) \div 2 + 1, hi)
    : first \in {FirstSatisfying(a, lambda, lo, (lo + hi) \div 2)}})

(* The loop and the statement after it.  info.scanned: the value is a      *)
(* thickness of the scan (the sum of info.iters additions of 0.1), not the *)
(* literal 50 of the last statement.                                       *)
ScanOutcome(lambda, k) ==
  IF k = 0
  THEN Returned(ExhaustedResult,
                <<"validate", "interpolateLambda", "scan", "exhausted", "return">>,
                [lambda |-> lambda, iters |-> ScanCeiling, scanned |-> FALSE])
  ELSE Returned(k, <<"validate", "interpolateLambda", "scan", "return">>,
                [lambda |-> lambda, iters |-> k, scanned |-> TRUE])

calculateMinimumThickness(a) ==
  TheOne({IF check # "ok" THEN Threw(check, <<"validate", "throw">>)
          ELSE TheOne({IF ~lam.returned
                       THEN Threw(lam.err, <<"validate">> \o lam.trace)
                       ELSE TheOne({ScanOutcome(lam.val, k)
                         : k \in {FirstSatisfying(a, lam.val, ScanStart, ScanCeiling)}})
            : lam \in {interpolateLambda((a.ambientTemp + a.mediumTemp) \div 2,
                                         a.material)}})
    : check \in {MinimumThicknessCheck(a)}})

(***************************************************************************)
(* The tube catalog ALL_TUBE_SIZES (utils/thermal.ts): mm in micrometres,  *)
(* wallThicknesses as Object.keys enumerates it, each entry                *)
(* <<insulation thickness in mm, number in stock>>.                        *)
(***************************************************************************)
Tube(type, dn, mm, wallThicknesses) ==
  [type |-> type, dn |-> dn, mm |-> mm, wallThicknesses |-> wallThicknesses]

ALL_TUBE_SIZES ==
  << Tube("copper", "DN8", 6000, << <<6, 486>>, <<9, 342>>, <<13, 216>> >>),
     Tube("copper", "DN8", 8000, << <<6, 432>>, <<9, 306>>, <<13, 198>> >>),
     Tube("copper", "DN10", 10000, << <<6, 378>>, <<9, 270>>, <<13, 180>> >>),
     Tube("copper", "DN15", 12000, << <<6, 342>>, <<9, 234>>, <<13, 162>> >>),
     Tube("copper", "DN15", 15000, << <<6, 270>>, <<9, 198>>, <<13, 144>> >>),
     Tube("copper", "DN20", 18000, << <<6, 234>>, <<9, 180>>, <<13, 126>>, <<19, 72>>, <<25, 56>> >>),
     Tube("copper", "DN20", 22000, << <<6, 198>>, <<9, 162>>, <<13, 108>>, <<19, 72>>, <<25, 48>>, <<32, 32>> >>),
     Tube("copper", "DN25", 25000, << <<6, 164>>, <<9, 134>>, <<13, 96>>, <<19, 66>>, <<25, 44>>, <<32, 28>> >>),
     Tube("copper", "DN25", 28000, << <<6, 132>>, <<9, 108>>, <<13, 84>>, <<19, 60>>, <<25, 40>>, <<32, 24>> >>),
     Tube("copper", "DN32", 35000, << <<6, 120>>, <<9, 96>>, <<13, 72>>, <<19, 48>>, <<25, 32>>, <<32, 24>> >>),
     Tube("copper", "DN40", 42000, << <<6, 108>>, <<9, 88>>, <<13, 56>>, <<19, 40>>, <<25, 24>>, <<32, 22>> >>),
     Tube("steel", "DN6", 10200, << >>),
     Tube("steel", "DN8", 13500, << >>),
     Tube("steel", "DN10", 17200, << >>),
     Tube("steel", "DN15", 21300, << <<6, 342>>, <<9, 234>>, <<13, 162>> >>),
     Tube("steel", "DN20", 26900, << <<6, 234>>, <<9, 180>>, <<13, 126>>, <<19, 72>>, <<25, 56>> >>),
     Tube("steel", "DN25", 33700, << <<6, 164>>, <<9, 134>>, <<13, 96>>, <<19, 66>>, <<25, 44>>, <<32, 28>> >>),
     Tube("steel", "DN32", 42400, << <<6, 108>>, <<9, 88>>, <<13, 56>>, <<19, 40>>, <<25, 24>>, <<32, 22>> >>),
     Tube("steel", "DN40", 48300, << <<9, 80>>, <<13, 48>>, <<19, 32>>, <<25, 24>>, <<32, 18>> >>),
     Tube("steel", "DN50", 60300, << <<9, 56>>, <<13, 40>>, <<19, 32>>, <<25, 18>>, <<32, 14>> >>),
     Tube("steel", "DN65", 76100, << <<9, 48>>, <<13, 36>>, <<19, 24>>, <<25, 18>>, <<32, 12>> >>),
     Tube("steel", "DN80", 88900, << <<9, 42>>, <<13, 30>>, <<19, 24>>, <<25, 16>>, <<32, 12>> >>),
     Tube("steel", "DN100", 114300, << <<9, 28>>, <<13, 24>>, <<19, 16>>, <<25, 12>>, <<32, 8>> >>) >>

(* [6, 9, 13, 19, 25, 32]                                                  *)
DefaultThicknesses == <<6, 9, 13, 19, 25, 32>>

(* ALL_TUBE_SIZES.find(tube => tube.mm === diameter): the index of the     *)
(* first match from i on, 0 for undefined.                                 *)
RECURSIVE FindTubeFrom(_, _)
FindTubeFrom(i, diameter) ==
  IF i > Len(ALL_TUBE_SIZES) THEN 0
  ELSE IF ALL_TUBE_SIZES[i].mm = diameter THEN i
  ELSE FindTubeFrom(i + 1, diameter)

FindTube(diameter) == FindTubeFrom(1, diameter)

(* Object.keys(wallThicknesses).map(Number).sort((a, b) => a - b)          *)
SortedThicknesses(tube) == SortAsc(LambdaKeys(tube.wallThicknesses))

getAvailableThicknesses(diameter) ==
  IF FindTube(diameter) = 0 THEN DefaultThicknesses
  ELSE IF Len(ALL_TUBE_SIZES[FindTube(diameter)].wallThicknesses) = 0
  THEN DefaultThicknesses
  ELSE SortedThicknesses(ALL_TUBE_SIZES[FindTube(diameter)])

(***************************************************************************)
(* calculateHeatLossPipe (utils/thermal/calculations.ts).  Diameters in    *)
(* micrometres, the length in millimetres, resistances in millionths of    *)
(* K/W, the heat flow Q in mW.                                             *)
(***************************************************************************)
MathPI == 3141593

(* The validation of calculateHeatLossPipe, in the order of the code; the  *)
(* diameters are compared with each other only.                            *)
HeatLossPipeCheck(p) ==
  IF p.D <= p.d THEN "InvalidGeometry"
  ELSE IF p.L <= 0 THEN "InvalidGeometry"
  ELSE IF p.lambda <= 0 THEN "InvalidConductivity"
  ELSE IF p.h <= 0 THEN "InvalidCoefficient"
  ELSE IF p.alpha # Undefined /\ p.alpha[1] <= 0 THEN "InvalidCoefficient"
  ELSE "ok"

(* R_alpha + R_ins + R_conv for diameters of one sign: with both negative  *)
(* Math.log(D / d) is the logarithm of |D| / |d| and the two convection    *)
(* terms are negative.                                                     *)
HeatLossPipeResistance(p) ==
  LET R_alpha == IF p.alpha = Undefined THEN 0
                 ELSE Sign(p.d) * Div(MICRO, Mul(Mul(Mul(p.alpha[1], MathPI), Abs(p.d)),
                                                 p.L * MILLI))
      R_ins == Div(LnRatio(Abs(p.D), Abs(p.d)), Mul(Mul(TwoPi, p.lambda), p.L * MILLI))
      R_conv == Sign(p.D) * Div(MICRO, Mul(Mul(Mul(p.h, MathPI), Abs(p.D)), p.L * MILLI))
  IN  R_alpha + R_ins + R_conv

(* d = 0: Math.log(D / 0) is Infinity, so is R_total, and Q is 0.          *)
(* d < 0 <= D: Math.log of a negative quotient is NaN, and for D = 0       *)
(* R_ins = -Infinity and R_conv = Infinity add up to NaN.                  *)
calculateHeatLossPipe(p) ==
  IF HeatLossPipeCheck(p) # "ok"
  THEN Threw(HeatLossPipeCheck(p), <<"validate", "throw">>)
  ELSE IF p.d = 0
  THEN Returned(0, <<"validate", "return">>, [R_total |-> "Infinity"])
  ELSE IF p.d < 0 /\ p.D >= 0
  THEN ReturnedNaN(<<"validate", "return">>, [R_total |-> "NaN"])
  ELSE TheOne({Returned(SignedMulDiv(p.Ti - p.Te, MICRO, R), <<"validate", "return">>,
                        [R_total |-> R])
         : R \in {HeatLossPipeResistance(p)}})

(***************************************************************************)
(* getRecommendedThickness (heat-loss helpers).  Radii in nanometres, so   *)
(* that the floor 1e-6 m of the inner radius is 1000; resistances in       *)
(* millionths of m K/W, heat flows in mW/m.                                *)
(***************************************************************************)
TargetHeatLoss == 15000

InnerRadiusFloor == 1000

(* Math.log(n / d) for radii whose ratio may exceed the range of LnRatio   *)
LnRatioWide(n, d) ==
  IF n \div 2000 >= d THEN Ln(1000 * MICRO) + LnRatio(n, 1000 * d)
  ELSE IF d \div 2000 >= n THEN -(Ln(1000 * MICRO) + LnRatio(d, 1000 * n))
  ELSE LnRatio(n, d)

(* 1 / (h * 2 * Math.PI * r), r in nanometres                              *)
ConvectionResistanceOfRadius(h, r) ==
  IF r >= 1000000 THEN ConvectionResistance(h, r \div 1000)
  ELSE MulDiv(1000 * MICRO, MICRO, Mul(Mul(h, TwoPi), r))

(* R_pipe = Math.log(rOuterPipe / rInnerPipe) / (2 * Math.PI * lambdaPipe) *)
RecommendedWallResistance(rOuterPipe, rInnerPipe) ==
  Div(LnRatioWide(rOuterPipe, rInnerPipe), Mul(TwoPi, LambdaPipe))

(* The resistances of one pass of the loop, for the candidate t (mm).      *)
RecommendedResistances(a, lambdaInsul, t) ==
  TheOne({TheOne({[t |-> t, R_pipe |-> R.pipe, R_insul |-> R.insul, R_conv |-> R.conv,
                   R_total |-> R.pipe + R.insul + R.conv,
                   R_unins |-> R.pipe + ConvectionResistanceOfRadius(a.h, r.rOuterPipe)]
      : R \in {[pipe |-> RecommendedWallResistance(r.rOuterPipe, r.rInnerPipe),
                insul |-> Div(LnRatioWide(r.ro, r.rOuterPipe), Mul(TwoPi, lambdaInsul)),
                conv |-> ConvectionResistanceOfRadius(a.h, r.ro)]}})
    : r \in {[rOuterPipe |-> a.tubeDiameter * 500,
              rInnerPipe |-> Max(InnerRadiusFloor,
                                 a.tubeDiameter * 500 - a.pipeWallThickness * 1000),
              ro |-> a.tubeDiameter * 500 + t * 1000000]}})

(* The loop over the candidates from index i on; passes are the            *)
(* resistances of the passes made so far.                                  *)
RECURSIVE RecommendedFrom(_, _, _, _, _)
RecommendedFrom(a, lambdaInsul, candidates, i, passes) ==
  IF i > Len(candidates)
  THEN Returned(candidates[Len(candidates)],
                <<"interpolateLambda", "loop", "return last">>, [passes |-> passes])
  ELSE TheOne({TheOne({
         IF ~losses.returned
         THEN Threw(losses.err, <<"interpolateLambda", "loop">> \o losses.trace)
         ELSE IF losses.info.heatLoss <= TargetHeatLoss
         THEN Returned(candidates[i], <<"interpolateLambda", "loop", "return t">>,
                       [passes |-> Append(passes, R)])
         ELSE RecommendedFrom(a, lambdaInsul, candidates, i + 1, Append(passes, R))
      : losses \in {calculateHeatLosses(a.mediumTemp - a.ambientTemp,
                                        R.R_total, R.R_unins)}})
    : R \in {RecommendedResistances(a, lambdaInsul, candidates[i])}})

(* Mutant of getRecommendedThickness: the loop starts at the second        *)
(* candidate.                                                              *)
getRecommendedThickness_SkipFirst(a) ==
  TheOne({IF ~lam.returned THEN Threw(lam.err, lam.trace)
          ELSE RecommendedFrom(a, lam.val, getAvailableThicknesses(a.tubeDiameter),
                               2, <<>>)
    : lam \in {interpolateLambda(a.ambientTemp, a.material)}})

getRecommendedThickness(a) ==
  TheOne({IF ~lam.returned THEN Threw(lam.err, lam.trace)
          ELSE RecommendedFrom(a, lam.val, getAvailableThicknesses(a.tubeDiameter),
                               1, <<>>)
    : lam \in {interpolateLambda(a.ambientTemp, a.material)}})

(***************************************************************************)
(* calculateCondensation of the pipes condensation calculator.             *)
(***************************************************************************)
(* The scan thicknesses whose floating-point value times 1.2 lies just     *)
(* above a whole number that 1.2 * k / 10 equals exactly: 2.5 mm and       *)
(* 20.0, 22.5, ..., 75.0 mm (e.g. 2.500000000000001 * 1.2 > 3).            *)
ScanRoundsUp == {25} \cup {200 + 25 * i : i \in 0..22}

(* Math.ceil(minThickness * 1.2), in millimetres                           *)
NominalTarget(minimum) ==
  IF minimum.info.scanned
  THEN (12 * minimum.val + 99) \div 100
         + (IF minimum.val \in ScanRoundsUp THEN 1 ELSE 0)
  ELSE (12 * minimum.val) \div 100

(* selectedTube && selectedTube.wallThicknesses ? sorted keys : default;   *)
(* an empty object is truthy.                                              *)
CondensationThicknesses(selectedTube) ==
  IF selectedTube = 0 THEN DefaultThicknesses
  ELSE SortedThicknesses(ALL_TUBE_SIZES[selectedTube])

(* availableThicknesses.find(t => t >= nominalThickness), from index i     *)
RECURSIVE FindAtLeast(_, _, _)
FindAtLeast(i, available, nominalThickness) ==
  IF i > Len(available) THEN Undefined
  ELSE IF available[i] >= nominalThickness THEN Some(available[i])
  ELSE FindAtLeast(i + 1, available, nominalThickness)

(* availableThicknesses[availableThicknesses.length - 1]                   *)
LastOf(available) ==
  IF Len(available) = 0 THEN Undefined ELSE Some(available[Len(available)])

(* Mutant of RecommendedThickness: the largest size is always taken.       *)
RecommendedThickness_AlwaysLast(available, nominalThickness) == LastOf(available)

(* find(...) || last: undefined and 0 are falsy                            *)
RecommendedThickness(available, nominalThickness) ==
  TheOne({IF found # Undefined /\ found # Some(0) THEN found ELSE LastOf(available)
    : found \in {FindAtLeast(1, available, nominalThickness)}})

CondensationInitialResults ==
  [dewpointTemperature |-> 0, minimumThickness |-> 0, nominalThickness |-> ""]

(* The statements of the handler after calculateMinimumThickness returned  *)
(* minimum.  nominalThickness of the results is the recommendation string: *)
(* its tube (0: the form 'NxN25mm' without a tube name) and the thickness  *)
(* printed in it (Undefined prints as "undefined").                        *)
CondensationResults(s, dewPoint, minimum) ==
  TheOne({Returned(minimum.val,
                   <<"validate", "calculateDewPoint", "calculateMinimumThickness">>
                     \o minimum.trace \o <<"setResults">>,
                   [set |-> TRUE,
                    minimum |-> minimum,
                    nominalThickness |-> t.nominalThickness,
                    available |-> t.available,
                    results |->
                      [dewpointTemperature |-> dewPoint,
                       minimumThickness |-> minimum.val,
                       nominalThickness |->
                         [tube |-> t.selectedTube,
                          thickness |-> RecommendedThickness(t.available,
                                                             t.nominalThickness)]]])
    : t \in {[nominalThickness |-> NominalTarget(minimum),
              selectedTube |-> FindTube(s.tubeDiameter),
              available |-> CondensationThicknesses(FindTube(s.tubeDiameter))]}})

(* Mutant of CondensationCatch: the generic message is shown for every     *)
(* error.                                                                  *)
CondensationCatch_Generic(minimum) ==
  Returned(0, <<"validate", "calculateDewPoint", "calculateMinimumThickness">>
                \o minimum.trace \o <<"catch", "alert">>,
           [set |-> FALSE, alert |-> "generic"])

(* The catch block for the error that calculateMinimumThickness threw, an  *)
(* instance of Error: alert(error.message), no setResults.                 *)
CondensationCatch(minimum) ==
  Returned(0, <<"validate", "calculateDewPoint", "calculateMinimumThickness">>
                \o minimum.trace \o <<"catch", "alert">>,
           [set |-> FALSE, alert |-> minimum.err])

(* calculateCondensation for the store values and the relative humidity s. *)
(* info.set = FALSE: the validation returned or the catch block alerted    *)
(* (info.alert is the error); otherwise setResults was reached.            *)
calculateCondensation(s) ==
  IF s.relativeHumidity <= 0 \/ s.relativeHumidity > 100 * MILLI \/ s.h <= 0
  THEN Returned(0, <<"validate", "return">>, [set |-> FALSE, alert |-> "none"])
  ELSE
    TheOne({TheOne({IF ~minimum.returned
                    THEN CondensationCatch(minimum)
                    ELSE CondensationResults(s, dew.val, minimum)
        : minimum \in {calculateMinimumThickness(
                         [tubeDiameter |-> s.tubeDiameter,
                          ambientTemp |-> s.ambientTemp,
                          mediumTemp |-> s.mediumTemp, dewPoint |-> dew.val,
                          material |-> s.material, h |-> s.h])}})
      : dew \in {calculateDewPoint(s.ambientTemp, s.relativeHumidity)}})

(***************************************************************************)
(* State machine.  A call starts from the idle state and ends in "done".    *)
(***************************************************************************)
NoOutcome ==
  [returned |-> FALSE, nan |-> FALSE, val |-> 0, err |-> "none", trace |-> <<>>, info |-> <<>>]

Init ==
  /\ pc = "idle"
  /\ op = "none"
  /\ args = <<>>
  /\ out = NoOutcome
  /\ thickness = 0
  /\ iters = 0
  /\ results = InitialResults
  /\ hasCalculated = FALSE

CanCall == pc = "idle"

(* ---- computeH ---------------------------------------------------------- *)
MaxHStep == 2

HAmbientTemps == {10000, 25000}
MediumOffset(k) ==
  IF k = 0 THEN 0
  ELSE IF k = 1 THEN 20
  ELSE IF k % 2 = 0 THEN -15000 * k ELSE 15000 * k
HEmissivities == {-100000, 0, 930000, 1100000}
Flags == {Undefined, Some(TRUE), Some(FALSE)}

(* Surface set-ups of a call: orientation, insulationThickness,            *)
(* calculationType, windSpeed, forCondensation.                            *)
HSurfaces ==
  { <<"horizontal", Undefined, Undefined, Undefined, Undefined>>,
    <<"vertical", Some(9000), Some("inside"), Undefined, Some(TRUE)>>,
    <<"horizontal", Some(9000), Some("outside"), Some(2 * MICRO), Some(TRUE)>>,
    <<"vertical", Undefined, Some("outside"), Some(2 * MICRO), Undefined>> }

ComputeHArgs ==
  { [ambientTemp |-> ta, mediumTemp |-> ta + MediumOffset(k), tubeDiameter |-> 25000,
     orientation |-> sf[1], emissivity |-> e,
     calculationType |-> sf[3], windSpeed |-> sf[4],
     insulationThickness |-> sf[2],
     useSimplifiedFormula |-> f1, applySafetyFactor |-> sa,
     useAdvancedAlgorithm |-> f2, useAdvancedSheetsAlgorithm |-> f3,
     useKFlexAlgorithm |-> f4, forCondensation |-> sf[5]] :
    ta \in HAmbientTemps, k \in 0..MaxHStep, e \in HEmissivities, sf \in HSurfaces,
    f1 \in Flags, f2 \in Flags, f3 \in Flags, f4 \in Flags, sa \in Flags }

CallComputeH ==
  /\ CanCall
  /\ \E a \in ComputeHArgs :
       /\ op' = "computeH"
       /\ args' = a
       /\ out' = computeH(a)
  /\ pc' = "done"
  /\ UNCHANGED <<thickness, iters, results, hasCalculated>>

NextH == CallComputeH
SpecH == Init /\ [][NextH]_vars

(* ---- calculateHeatLoss (pipes) ----------------------------------------- *)
MaxDiameterIndex == 3
TubeDiameterAt(i) ==
  CASE i = 1 -> 25000 [] i = 2 -> 12000 [] i = 3 -> 42000 [] i = 4 -> 88900
    [] OTHER -> 114300

HeatLossArgs ==
  { [ambientTemp |-> ta, mediumTemp |-> tm, tubeDiameter |-> TubeDiameterAt(i),
     material |-> "ROKAFLEX ST", h |-> h, orientation |-> o, emissivity |-> e,
     insulationThickness |-> th, pipeWallThickness |-> w, pipeLength |-> len,
     costPerKWh |-> 500] :
    ta \in {25000, 10000}, tm \in {-5000, 10000, 25000, 60000},
    i \in 1..MaxDiameterIndex, h \in {0, 9 * MICRO}, o \in {"horizontal", "vertical"},
    e \in {930000, 1100000}, th \in {0, 9000, 13000}, w \in {0, 1000},
    len \in {1000, 2000} }

CalculateHeatLoss ==
  /\ CanCall
  /\ \E a \in HeatLossArgs :
       \E r \in {calculateHeatLoss(a)} :
           /\ op' = "calculateHeatLoss"
           /\ args' = a
           /\ out' = r
           /\ IF r.returned /\ r.info.set
              THEN results' = r.info.results /\ hasCalculated' = TRUE
              ELSE UNCHANGED <<results, hasCalculated>>
  /\ pc' = "done"
  /\ UNCHANGED <<thickness, iters>>

NextHeatLoss == CalculateHeatLoss
SpecHeatLoss == Init /\ [][NextHeatLoss]_vars

(* ---- calculateMinimumThickness ------------------------------------------ *)
DewOffsets == {-1000, 0, 200, 400, 500, 3000, 8000, 15000}

MinimumThicknessArgs ==
  { [tubeDiameter |-> d, ambientTemp |-> ta, mediumTemp |-> tm, dewPoint |-> ta - off,
     material |-> m, h |-> h] :
    d \in {0, 25000}, ta \in {10000, 25000}, tm \in {-5000, 5000, 30000},
    off \in DewOffsets, m \in {"ROKAFLEX ST", "UNKNOWN"}, h \in {0, 9 * MICRO} }

(* Entry of calculateMinimumThickness up to the first test of the loop.    *)
CallCalculateMinimumThickness ==
  /\ CanCall
  /\ \E a \in MinimumThicknessArgs :
       \E check \in {MinimumThicknessCheck(a)},
          lam \in {interpolateLambda((a.ambientTemp + a.mediumTemp) \div 2, a.material)} :
           /\ op' = "calculateMinimumThickness"
           /\ args' = a
           /\ IF check # "ok"
              THEN /\ out' = Threw(check, <<"validate", "throw">>)
                   /\ pc' = "done"
                   /\ thickness' = thickness
              ELSE IF ~lam.returned
              THEN /\ out' = Threw(lam.err, <<"validate">> \o lam.trace)
                   /\ pc' = "done"
                   /\ thickness' = thickness
              ELSE /\ out' = [NoOutcome EXCEPT !.trace = <<"validate", "interpolateLambda">>,
                                               !.info = [lambda |-> lam.val]]
                   /\ pc' = "scan"
                   /\ thickness' = ScanStart
  /\ UNCHANGED <<iters, results, hasCalculated>>

(* One iteration of the loop: thickness <= 100 held, the body runs.        *)
ScanStep ==
  /\ pc = "scan"
  /\ thickness <= ScanCeiling
  /\ iters' = iters + 1
  /\ IF SurfaceTemp(args, out.info.lambda, thickness) >= TargetSurfaceTemp(args)
     THEN /\ out' = Returned(thickness, out.trace \o <<"scan", "return">>, out.info)
          /\ pc' = "done"
          /\ thickness' = thickness
     ELSE /\ thickness' = NextThickness(thickness)
          /\ UNCHANGED <<pc, out>>
  /\ UNCHANGED <<op, args, results, hasCalculated>>

(* The loop condition failed: the statement after the loop returns.        *)
ScanExhausted ==
  /\ pc = "scan"
  /\ thickness > ScanCeiling
  /\ out' = Returned(ExhaustedResult, out.trace \o <<"scan", "exhausted", "return">>,
                     out.info)
  /\ pc' = "done"
  /\ UNCHANGED <<op, args, thickness, iters, results, hasCalculated>>

NextCond == CallCalculateMinimumThickness \/ ScanStep \/ ScanExhausted
SpecCond == Init /\ [][NextCond]_vars

(* ---- calculateCondensation (pipes) -------------------------------------- *)
InitCondensation ==
  /\ pc = "idle"
  /\ op = "none"
  /\ args = <<>>
  /\ out = NoOutcome
  /\ thickness = 0
  /\ iters = 0
  /\ results = CondensationInitialResults
  /\ hasCalculated = FALSE

MaxHumidityIndex == 9
RelativeHumidityAt(i) ==
  CASE i = 1 -> 0 [] i = 2 -> 30000 [] i = 3 -> 60000 [] i = 4 -> 80000
    [] i = 5 -> 90000 [] i = 6 -> 94000 [] i = 7 -> 95000 [] i = 8 -> 97000
    [] i = 9 -> 100000 [] OTHER -> 100000 + i

(* Catalog tubes with stock tables of three, five and six sizes, a steel   *)
(* tube with an empty table, the largest tube, and a size not listed.      *)
CondensationDiameters == {6000, 18000, 25000, 10200, 114300, 30000}

CondensationArgs ==
  { [ambientTemp |-> ta, mediumTemp |-> tm, tubeDiameter |-> d,
     material |-> "ROKAFLEX ST", h |-> h, relativeHumidity |-> RelativeHumidityAt(i)] :
    ta \in {10000, 25000}, tm \in {-5000}, d \in CondensationDiameters,
    h \in {0, 9 * MICRO}, i \in 1..MaxHumidityIndex }

CalculateCondensation ==
  /\ CanCall
  /\ \E s \in CondensationArgs :
       \E r \in {calculateCondensation(s)} :
           /\ op' = "calculateCondensation"
           /\ args' = s
           /\ out' = r
           /\ IF r.info.set
              THEN results' = r.info.results /\ hasCalculated' = TRUE
              ELSE UNCHANGED <<results, hasCalculated>>
  /\ pc' = "done"
  /\ UNCHANGED <<thickness, iters>>

NextCondensation == CalculateCondensation
SpecCondensation == InitCondensation /\ [][NextCondensation]_vars

(* ---- calculateDewPoint then calculateMinimumThickness -------------------- *)
(* The minimum thickness for the values s at relative humidity rh.         *)
MinimumThicknessAtHumidity(s, rh) ==
  TheOne({calculateMinimumThickness(
            [tubeDiameter |-> s.tubeDiameter, ambientTemp |-> s.ambientTemp,
             mediumTemp |-> s.mediumTemp, dewPoint |-> dew.val,
             material |-> s.material, h |-> s.h])
    : dew \in {calculateDewPoint(s.ambientTemp, rh)}})

Humidities == <<30000, 60000, 80000, 94000, 95000, 98000>>

HumidityBaseArgs ==
  { [ambientTemp |-> ta, mediumTemp |-> -5000, tubeDiameter |-> d,
     material |-> "ROKAFLEX ST", h |-> 9 * MICRO] :
    ta \in {10000, 25000}, d \in CondensationDiameters }

(* The outcomes at the first n humidities, each computed once.             *)
RECURSIVE ThicknessTable(_, _)
ThicknessTable(s, n) ==
  IF n = 0 THEN <<>>
  ELSE Append(ThicknessTable(s, n - 1), MinimumThicknessAtHumidity(s, Humidities[n]))

(* The function is applied at two humidities rh1 < rh2 of the same values. *)
CompareHumidities ==
  /\ CanCall
  /\ \E s \in HumidityBaseArgs :
       \E table \in {ThicknessTable(s, Len(Humidities))} :
         \E i \in 1..Len(Humidities), j \in 1..Len(Humidities) :
           /\ i < j
           /\ op' = "minimumThicknessAtHumidity"
           /\ args' = [base |-> s, rh1 |-> Humidities[i], rh2 |-> Humidities[j]]
           /\ out' = [low |-> table[i], high |-> table[j]]
  /\ pc' = "done"
  /\ UNCHANGED <<thickness, iters, results, hasCalculated>>

NextHumidity == CompareHumidities
SpecHumidity == InitCondensation /\ [][NextHumidity]_vars

(***************************************************************************)
(* Claims about computeH and the h-estimators (specification SpecH).       *)
(***************************************************************************)
FourAlgorithms ==
  {"calculateHCoefficient", "calculateKFlexH", "calculateAdvancedH",
   "calculateAdvancedH_Sheets"}

Steps(tr) == {tr[i] : i \in DOMAIN tr}
AlgorithmsExecuted(tr) == Steps(tr) \cap FourAlgorithms

ComputeHDone == op = "computeH" /\ pc = "done"

InvalidEmissivity(e) == e < 0 \/ e > MICRO

SameOutcome(r1, r2) ==
  /\ r1.returned = r2.returned
  /\ r1.nan = r2.nan
  /\ r1.val = r2.val
  /\ r1.err = r2.err

(* The named estimator applied to the arguments of a computeH call.        *)
AlgorithmResult(alg, a) ==
  CASE alg = "calculateKFlexH" ->
         calculateKFlexH(a.ambientTemp, a.mediumTemp, a.emissivity, Some(a.orientation),
                         Some(a.tubeDiameter), a.insulationThickness,
                         Some(Default(a.forCondensation, FALSE)))
    [] alg = "calculateAdvancedH_Sheets" ->
         calculateAdvancedH_Sheets(a.ambientTemp, a.mediumTemp, a.emissivity)
    [] alg = "calculateAdvancedH" ->
         calculateAdvancedH(a.ambientTemp, a.mediumTemp, a.emissivity, Some(a.orientation),
                            Some(a.tubeDiameter), a.insulationThickness)
    [] alg = "calculateHCoefficient" ->
         calculateHCoefficient(SurfaceEstimate(a.ambientTemp, a.mediumTemp), a.ambientTemp,
                               Some(a.mediumTemp), a.emissivity,
                               Some(Default(a.applySafetyFactor, TRUE)))

NoFlagSupplied(a) ==
  /\ a.useKFlexAlgorithm = Undefined
  /\ a.useAdvancedSheetsAlgorithm = Undefined
  /\ a.useAdvancedAlgorithm = Undefined
  /\ a.useSimplifiedFormula = Undefined

(* Some flag selects one of the four estimators.                           *)
AnyFlagInForce(a) ==
  \/ a.useKFlexAlgorithm = Some(TRUE)
  \/ a.useAdvancedSheetsAlgorithm = Some(TRUE)
  \/ a.useAdvancedAlgorithm = Some(TRUE)
  \/ a.useSimplifiedFormula # Some(FALSE)

(* C1, as claimed: every computeH call, whatever its flags, executes       *)
(* exactly one of the four estimators, and Standard when no flag is given. *)
C1_Original ==
  ComputeHDone =>
    /\ Cardinality(AlgorithmsExecuted(out.trace)) = 1
    /\ NoFlagSupplied(args) => AlgorithmsExecuted(out.trace) = {"calculateHCoefficient"}

(* C1, amended: a computeH call in which a flag selects an estimator       *)
(* (useKFlexAlgorithm, useAdvancedSheetsAlgorithm or useAdvancedAlgorithm  *)
(* true, or useSimplifiedFormula true or omitted) executes exactly one of  *)
(* the four estimators and ends as that estimator ends, Standard when no   *)
(* flag is given; a call with useSimplifiedFormula = false and no other    *)
(* flag executes none of the four but computeH's own Nusselt-number path.  *)
C1_ExactlyOneEstimatorWhenSelected ==
  ComputeHDone =>
    IF AnyFlagInForce(args)
    THEN /\ Cardinality(AlgorithmsExecuted(out.trace)) = 1
         /\ \A alg \in AlgorithmsExecuted(out.trace) :
              SameOutcome(out, AlgorithmResult(alg, args))
         /\ NoFlagSupplied(args) =>
              AlgorithmsExecuted(out.trace) = {"calculateHCoefficient"}
    ELSE /\ AlgorithmsExecuted(out.trace) = {}
         /\ "nusselt" \in Steps(out.trace)

C1_Witness ==
  /\ ComputeHDone
  /\ NoFlagSupplied(args)
  /\ out.returned
  /\ AlgorithmsExecuted(out.trace) = {"calculateHCoefficient"}

(* C2: for every emissivity outside [0,1], computeH fails with the         *)
(* invalid-emissivity error and returns no coefficient, whichever          *)
(* algorithm the flags select.                                             *)
C2_InvalidEmissivityAlwaysRaises ==
  (ComputeHDone /\ InvalidEmissivity(args.emissivity)) =>
    (~out.returned /\ out.err = "InvalidEmissivity")

(* C3, as claimed: with an emissivity outside [0,1], in each of the four   *)
(* estimator modes reached through computeH the error is raised before any *)
(* arithmetic on the temperatures is performed in that call.               *)
C3_Original ==
  (ComputeHDone /\ InvalidEmissivity(args.emissivity)
     /\ ComputeHBranch(args) \in FourAlgorithms) =>
    (out.err = "InvalidEmissivity" /\ "tempArith" \notin Steps(out.trace))

(* A step of temperature arithmetic between the estimator's entry and the  *)
(* end of the call.                                                        *)
ArithInsideEstimator(tr) ==
  \E i, j \in DOMAIN tr : i < j /\ tr[i] \in FourAlgorithms /\ tr[j] = "tempArith"

(* C3, amended: with an emissivity outside [0,1], each of the four         *)
(* estimators raises the invalid-emissivity error before any temperature   *)
(* arithmetic of its own; on the KFlex, AdvancedSheet and AdvancedPipe     *)
(* routes of computeH no temperature arithmetic precedes the error at all, *)
(* while on the Standard route computeH has computed its derived           *)
(* temperatures (lines 96-111, 118) before calculateHCoefficient validates.*)
C3_EstimatorValidatesFirst ==
  (ComputeHDone /\ InvalidEmissivity(args.emissivity)
     /\ ComputeHBranch(args) \in FourAlgorithms) =>
    /\ out.err = "InvalidEmissivity"
    /\ ~out.returned
    /\ ~ArithInsideEstimator(out.trace)
    /\ IF ComputeHBranch(args) = "calculateHCoefficient"
       THEN out.trace = <<"tempArith", "calculateHCoefficient", "validateEmissivity", "throw">>
       ELSE "tempArith" \notin Steps(out.trace)

C3_Witness ==
  /\ ComputeHDone
  /\ args.emissivity = -100000
  /\ ComputeHBranch(args) = "calculateAdvancedH"
  /\ out.err = "InvalidEmissivity"
  /\ out.trace = <<"calculateAdvancedH", "validateEmissivity", "throw">>

StandardCall == ComputeHDone /\ ComputeHBranch(args) = "calculateHCoefficient"

(* C4: in Standard mode with T_sup = T_amb and a valid emissivity the call *)
(* returns a finite coefficient: convection is computed with the floor     *)
(* deltaT = 1 K, radiation by the linearized form 4 eps sigma T_mean^3;    *)
(* the exact difference form is used only when |T_sup - T_amb| >= 0.01 K.  *)
C4_ZeroDeltaTStandard ==
  (StandardCall /\ ~InvalidEmissivity(args.emissivity)) =>
    LET T_sup == SurfaceEstimate(args.ambientTemp, args.mediumTemp)
        T_amb == args.ambientTemp
    IN  /\ out.returned /\ ~out.nan
        /\ out.info.form = "exact" <=> Abs(T_sup - T_amb) >= 10
        /\ T_sup = T_amb =>
             /\ out.info.deltaT = 1 * MILLI
             /\ out.info.form = "linearized"
             /\ out.info.alpha_conv = Max(Mul(1320000, Pow(MICRO, 330000)), MinAlphaConv)
             /\ out.info.alpha_rad =
                  Min(LinearizedRadiation(args.emissivity, CelsiusToKelvin(T_amb)),
                      MaxAlphaRad)
             /\ out.val = Round3(ApplySafety(out.info.alpha_conv + out.info.alpha_rad,
                                             Default(args.applySafetyFactor, TRUE)))

C4_Witness ==
  /\ StandardCall
  /\ args.emissivity = 930000
  /\ SurfaceEstimate(args.ambientTemp, args.mediumTemp) = args.ambientTemp
  /\ out.returned /\ ~out.nan
  /\ out.info.form = "linearized"
  /\ out.info.deltaT = 1 * MILLI

(* ---- interpolateLambda -------------------------------------------------- *)
MaxLambdaStep == 40
LambdaStep == 2500
LambdaTemps ==
  { -30000 + LambdaStep * k + d : k \in 0..MaxLambdaStep, d \in {-1, 0, 1} }
MaterialNames == {"ROKAFLEX ST", "UNKNOWN", "constructor", "__proto__"}

CallInterpolateLambda ==
  /\ CanCall
  /\ \E t \in LambdaTemps, m \in MaterialNames :
       /\ op' = "interpolateLambda"
       /\ args' = [temp |-> t, material |-> m]
       /\ out' = interpolateLambda(t, m)
  /\ pc' = "done"
  /\ UNCHANGED <<thickness, iters, results, hasCalculated>>

NextLambda == CallInterpolateLambda
SpecLambda == Init /\ [][NextLambda]_vars

(***************************************************************************)
(* Claims about interpolateLambda (specification SpecLambda).              *)
(***************************************************************************)
LambdaDone == op = "interpolateLambda" /\ pc = "done"

(* The table of a catalog material as a set of <<temperature, lambda>>.    *)
Breakpoints(material) ==
  {MATERIALS[material][i] : i \in DOMAIN MATERIALS[material]}
TableMin(material) ==
  CHOOSE t \in {b[1] : b \in Breakpoints(material)} :
    \A b \in Breakpoints(material) : t <= b[1]
TableMax(material) ==
  CHOOSE t \in {b[1] : b \in Breakpoints(material)} :
    \A b \in Breakpoints(material) : t >= b[1]
InTable(temp, material) ==
  material \in DOMAIN MATERIALS
    /\ temp >= TableMin(material) /\ temp <= TableMax(material)

(* The nearest breakpoint at or below, and at or above, a temperature.     *)
BreakpointBelow(temp, material) ==
  CHOOSE b \in Breakpoints(material) :
    b[1] <= temp /\ \A c \in Breakpoints(material) : c[1] <= temp => c[1] <= b[1]
BreakpointAbove(temp, material) ==
  CHOOSE b \in Breakpoints(material) :
    b[1] >= temp /\ \A c \in Breakpoints(material) : c[1] >= temp => c[1] >= b[1]

(* C5: for a catalog material and a temperature inside [t_min, t_max] of   *)
(* its table, interpolateLambda returns the linear interpolation between   *)
(* the two bracketing breakpoints: exactly the table value at a            *)
(* breakpoint, and between breakpoints a value that moves in the direction *)
(* of the two table values as the temperature rises.                       *)
C5_LinearInterpolation ==
  (LambdaDone /\ InTable(args.temp, args.material)) =>
    LET lo == BreakpointBelow(args.temp, args.material)
        hi == BreakpointAbove(args.temp, args.material)
    IN  /\ out.returned /\ ~out.nan
        /\ IF lo = hi
           THEN out.val = lo[2]
           ELSE /\ out.val = lo[2] + MulDiv(hi[2] - lo[2], args.temp - lo[1],
                                            hi[1] - lo[1])
                /\ out.val >= Min(lo[2], hi[2]) /\ out.val <= Max(lo[2], hi[2])
        /\ \A t2 \in LambdaTemps :
             (t2 >= args.temp /\ t2 <= hi[1]) =>
               LET v2 == interpolateLambda(t2, args.material).val
               IN  /\ hi[2] >= lo[2] => v2 >= out.val
                   /\ hi[2] <= lo[2] => v2 <= out.val

C5_Witness ==
  /\ LambdaDone
  /\ args.material = "ROKAFLEX ST"
  /\ args.temp = -10001
  /\ out.returned
  /\ out.val = 33000
  /\ out.info.bracket = 1

(* C6: interpolateLambda never raises; for a material name absent from the *)
(* catalog, and for a temperature below the first or above the last        *)
(* breakpoint, it returns the default 0.036.                               *)
C6_NeverRaisesDefault ==
  LambdaDone =>
    /\ out.returned
    /\ (args.material \notin DOMAIN MATERIALS
          \/ ~InTable(args.temp, args.material)) => out.val = DefaultLambda

(***************************************************************************)
(* Claims about the pipe heat-loss calculation (specification              *)
(* SpecHeatLoss).                                                          *)
(***************************************************************************)
HeatLossDone == op = "calculateHeatLoss" /\ pc = "done"

(* Scenario A: the calculation ran to setResults for 25 / -5 / ROKAFLEX ST. *)
ScenarioA ==
  /\ HeatLossDone
  /\ args.ambientTemp = 25000
  /\ args.mediumTemp = -5000
  /\ args.material = "ROKAFLEX ST"
  /\ out.returned
  /\ out.info.set

MinimumThicknessCall == op = "calculateMinimumThickness"
MinimumThicknessDone == MinimumThicknessCall /\ pc = "done"

(* The conductivity of a call, from its arguments.                         *)
ScanLambda(a) ==
  interpolateLambda((a.ambientTemp + a.mediumTemp) \div 2, a.material).val

(* Scan thickness th satisfies surfaceTemp >= dewPoint + 0.4.              *)
Satisfies(a, th) == SurfaceTemp(a, ScanLambda(a), th) >= a.dewPoint + SafetyMargin

(* C8: calculateMinimumThickness checks its condensation preconditions     *)
(* before searching: with dewPoint >= ambientTemp it fails with the        *)
(* invalid-humidity error, otherwise with dewPoint + 0.4 > ambientTemp     *)
(* with the unreachable-target error (for a call that passed the checks of *)
(* tubeDiameter and h, which come first); in both cases no iteration of    *)
(* the scan is executed and no thickness is returned.                      *)
C8_PreconditionsBeforeScan ==
  MinimumThicknessCall =>
    /\ (args.dewPoint >= args.ambientTemp
          \/ args.dewPoint + SafetyMargin > args.ambientTemp) =>
         /\ pc = "done"
         /\ ~out.returned
         /\ out.err # "none"
         /\ iters = 0
         /\ "scan" \notin Steps(out.trace)
    /\ (args.tubeDiameter > 0 /\ args.h > 0) =>
         /\ args.dewPoint >= args.ambientTemp => out.err = "InvalidHumidity"
         /\ (args.dewPoint < args.ambientTemp
               /\ args.dewPoint + SafetyMargin > args.ambientTemp) =>
              out.err = "UnreachableTarget"
    /\ (pc = "scan" \/ iters > 0) =>
         args.dewPoint + SafetyMargin <= args.ambientTemp

C8_Witness ==
  /\ MinimumThicknessDone
  /\ args.tubeDiameter > 0 /\ args.h > 0
  /\ args.dewPoint = args.ambientTemp - 200
  /\ out.err = "UnreachableTarget"
  /\ ~out.returned
  /\ iters = 0

(* C9: when the preconditions hold the call returns, and when some scanned *)
(* thickness satisfies the criterion it returns the first thickness of the *)
(* scan 0.1, 0.2, ... mm whose surface temperature is >= dewPoint + 0.4:   *)
(* every smaller scanned thickness has a surface temperature below it.     *)
C9_FirstSatisfyingThickness ==
  (MinimumThicknessDone /\ MinimumThicknessCheck(args) = "ok") =>
    /\ out.returned
    /\ (\E th \in ScanStart..ScanCeiling : Satisfies(args, th)) =>
         /\ "exhausted" \notin Steps(out.trace)
         /\ out.val \in ScanStart..ScanCeiling
         /\ Satisfies(args, out.val)
         /\ \A th \in ScanStart..(out.val - 1) : ~Satisfies(args, th)
         /\ iters = out.val - ScanStart + 1

C9_Witness ==
  /\ MinimumThicknessDone
  /\ args.ambientTemp = 25000 /\ args.mediumTemp = -5000
  /\ args.dewPoint = 22000
  /\ out.returned
  /\ out.val > 200 /\ out.val < 300
  /\ ~Satisfies(args, out.val - 1)
  /\ Satisfies(args, out.val)

(* C10: when the scan reaches its ceiling without any scanned thickness    *)
(* satisfying the criterion, the call returns the largest thickness the    *)
(* scan tested.                                                            *)
C10_ExhaustedReturnsLargestTested ==
  (MinimumThicknessDone /\ "exhausted" \in Steps(out.trace)) =>
    /\ out.returned
    /\ out.val = ScanStart + iters - 1

(***************************************************************************)
(* Claims about calculateCondensation (specification SpecCondensation).    *)
(***************************************************************************)
CondensationDone == op = "calculateCondensation" /\ pc = "done"

(* The call reached setResults with a thickness of an exhausted search.    *)
SearchExhausted ==
  CondensationDone /\ out.info.set /\ "exhausted" \in Steps(out.trace)

(* C11: when the thickness search is exhausted, calculateCondensation      *)
(* surfaces it: the call warns or alerts, or the result it displays        *)
(* carries a field that flags it as not guaranteed safe.                   *)
C11_ExhaustionIsFlagged ==
  SearchExhausted =>
    \/ "warn" \in Steps(out.trace)
    \/ "alert" \in Steps(out.trace)
    \/ DOMAIN results # DOMAIN CondensationInitialResults

(***************************************************************************)
(* Termination of the thickness scan (specification SpecCondFair: a call   *)
(* that is in its loop executes the next iteration, or the statement after *)
(* the loop).                                                              *)
(***************************************************************************)
SpecCondFair == SpecCond /\ WF_vars(ScanStep) /\ WF_vars(ScanExhausted)

(* The call is over: it returned a thickness of the scan, or its loop      *)
(* ended at the ceiling after all the iterations.                          *)
ScanEnded ==
  /\ pc = "done"
  /\ out.returned
  /\ \/ /\ "exhausted" \notin Steps(out.trace)
        /\ out.val \in ScanStart..ScanCeiling
        /\ iters = out.val - ScanStart + 1
     \/ /\ "exhausted" \in Steps(out.trace)
        /\ thickness > ScanCeiling
        /\ iters = ScanCeiling - ScanStart + 1

(* C12: the scan of calculateMinimumThickness always terminates: a call    *)
(* that passed the preconditions never executes more than 1000 iterations  *)
(* and eventually has returned a scanned thickness or has ended at the     *)
(* ceiling of the scan.                                                    *)
C12_ScanTerminates ==
  /\ [](iters <= ScanCeiling)
  /\ (pc = "scan") ~> ScanEnded

C12_Witness ==
  /\ MinimumThicknessDone
  /\ MinimumThicknessCheck(args) = "ok"
  /\ "exhausted" \in Steps(out.trace)
  /\ iters = ScanCeiling
  /\ thickness = ScanCeiling + 1

(***************************************************************************)
(* Claims about the minimum thickness as a function of the relative        *)
(* humidity (specification SpecHumidity).                                  *)
(***************************************************************************)
HumiditiesCompared == op = "minimumThicknessAtHumidity" /\ pc = "done"

(* C13: for fixed tubeDiameter, ambientTemp, mediumTemp, material and h    *)
(* and relative humidities rh1 < rh2 at which the calculation returns a    *)
(* thickness, the thickness returned at rh2 is greater than or equal to    *)
(* the one returned at rh1.                                                *)
C13_MonotoneInHumidity ==
  (HumiditiesCompared /\ args.rh1 < args.rh2
     /\ out.low.returned /\ out.high.returned) =>
    out.high.val >= out.low.val

(* The thickness printed in the recommendation, in millimetres.            *)
Recommended == results.nominalThickness.thickness

(* The sizes of a ladder.                                                  *)
Sizes(ladder) == {ladder[i] : i \in 1..Len(ladder)}

CatalogTube == FindTube(args.tubeDiameter) # 0

(* C14: for a catalog tube diameter and a minimum thickness returned by    *)
(* calculateMinimumThickness, the nominal thickness that                   *)
(* calculateCondensation recommends is a member of the stock ladder of     *)
(* that diameter and is >= the minimum thickness.                          *)
C14_NominalInLadderAndSufficient ==
  (CondensationDone /\ out.info.set /\ CatalogTube) =>
    /\ Recommended # Undefined
    /\ Recommended[1] \in Sizes(getAvailableThicknesses(args.tubeDiameter))
    /\ Recommended[1] * 10 >= results.minimumThickness

(* The ladder the call used is not empty.                                  *)
LadderUsed == out.info.available
SizesReaching == {t \in Sizes(LadderUsed) : t >= out.info.nominalThickness}

NoStockTable ==
  \/ ~CatalogTube
  \/ Len(ALL_TUBE_SIZES[FindTube(args.tubeDiameter)].wallThicknesses) = 0

(* C16: whenever the stock table of the selected geometry is empty or      *)
(* absent, the ladder used for the nominal thickness is the default ladder *)
(* 6, 9, 13, 19, 25, 32 mm, in getAvailableThicknesses and in              *)
(* calculateCondensation, and a numeric nominal size is produced.          *)
C16_DefaultLadderWhenNoStock ==
  (CondensationDone /\ out.info.set /\ NoStockTable) =>
    /\ getAvailableThicknesses(args.tubeDiameter) = DefaultThicknesses
    /\ LadderUsed = DefaultThicknesses
    /\ Recommended # Undefined


(* ---- calculateHeatLosses -------------------------------------------------- *)
HeatLossDeltas == {-30000, 0, 20000, 55000}

(* Resistances per unit length in millionths of m K/W, among them zero,     *)
(* a negative one and equal pairs.                                          *)
HeatLossResistances == {-500000, 0, 250000, 400000, 1000000, 2500000}

CallCalculateHeatLosses ==
  /\ CanCall
  /\ \E dT \in HeatLossDeltas, R \in HeatLossResistances, Ru \in HeatLossResistances :
       /\ op' = "calculateHeatLosses"
       /\ args' = [deltaT |-> dT, R_total |-> R, R_total_uninsulated |-> Ru]
       /\ out' = calculateHeatLosses(dT, R, Ru)
  /\ pc' = "done"
  /\ UNCHANGED <<thickness, iters, results, hasCalculated>>

NextHeatLosses == CallCalculateHeatLosses
SpecHeatLosses == Init /\ [][NextHeatLosses]_vars

HeatLossesDone == pc = "done" /\ op = "calculateHeatLosses"

CriticalDiameter == args.R_total <= args.R_total_uninsulated

Warned == \E i \in DOMAIN out.trace : out.trace[i] = "warn"

(* C17: calculateHeatLosses raises exactly when R_total <= 0 or             *)
(* R_total_uninsulated <= 0; with both resistances positive it returns, it  *)
(* warns exactly when R_total <= R_total_uninsulated, and the reported      *)
(* decrease is a number <= 0 exactly in that case.                          *)
C17_ThrowsOnlyOnNonPositiveResistance ==
  HeatLossesDone =>
    /\ ~out.returned <=> (args.R_total <= 0 \/ args.R_total_uninsulated <= 0)
    /\ out.returned =>
         /\ Warned <=> CriticalDiameter
         /\ ("decrease" \notin out.info.nan /\ out.info.decrease <= 0)
              <=> CriticalDiameter


(* ---- getRecommendedThickness ---------------------------------------------- *)
(* tubeDiameter and pipeWallThickness in micrometres (an absent wall        *)
(* thickness is 0); the diameter of 1 micrometre is paired with the large   *)
(* coefficient only, whose bare-pipe resistance fits the integers.          *)
RecommendedArgs ==
  { a \in [ambientTemp : {10000, 25000}, mediumTemp : {-5000, 25000, 60000, 90000},
           tubeDiameter : {1, 10200, 12000, 25000}, pipeWallThickness : {0, 1000},
           material : {"ROKAFLEX ST", "UNKNOWN"}, h : {9 * MICRO, 200 * MICRO}] :
      a.tubeDiameter >= 1000 \/ a.h = 200 * MICRO }

CallGetRecommendedThickness ==
  /\ CanCall
  /\ \E a \in RecommendedArgs :
       /\ op' = "getRecommendedThickness"
       /\ args' = a
       /\ out' = getRecommendedThickness(a)
  /\ pc' = "done"
  /\ UNCHANGED <<thickness, iters, results, hasCalculated>>

NextRecommended == CallGetRecommendedThickness
SpecRecommended == Init /\ [][NextRecommended]_vars

RecommendedDone ==
  pc = "done" /\ op = "getRecommendedThickness" /\ out.returned

(* C18: for tubeDiameter > 0, a candidate thickness > 0, a wall thickness   *)
(* >= 0, h > 0 and lambda > 0, every resistance computed by                 *)
(* getRecommendedThickness is >= 0: R_pipe is exactly 0 for a wall          *)
(* thickness of 0, R_insul and R_conv are > 0, and R_total > 0.             *)
C18_ResistancesNonNegative ==
  RecommendedDone =>
    \A i \in DOMAIN out.info.passes :
      /\ out.info.passes[i].R_pipe >= 0
      /\ args.pipeWallThickness = 0 => out.info.passes[i].R_pipe = 0
      /\ out.info.passes[i].R_insul > 0
      /\ out.info.passes[i].R_conv > 0
      /\ out.info.passes[i].R_total > 0


(* ---- calculateDewPoint ---------------------------------------------------- *)
(* Air temperatures in thousandths of a degree, among them -243.12, the     *)
(* pole of the Magnus quotient.                                             *)
DewPointTemperatures == {-243120, -40000, -5000, 0, 10000, 25000, 60000}

(* Relative humidities in thousandths of a percent, 1 % to 100 %.           *)
DewPointHumidities == {1000, 10000, 30000, 60000, 80000, 90000, 95000, 99000, 100000}

(* calculateDewPoint for one air temperature and two humidities rh1 < rh2   *)
CompareDewPoints ==
  /\ CanCall
  /\ \E T \in DewPointTemperatures, rh1 \in DewPointHumidities, rh2 \in DewPointHumidities :
       /\ rh1 < rh2
       /\ op' = "calculateDewPoint"
       /\ args' = [T |-> T, rh1 |-> rh1, rh2 |-> rh2]
       /\ out' = [low |-> calculateDewPoint(T, rh1), high |-> calculateDewPoint(T, rh2)]
  /\ pc' = "done"
  /\ UNCHANGED <<thickness, iters, results, hasCalculated>>

NextDewPoint == CompareDewPoints
SpecDewPoint == Init /\ [][NextDewPoint]_vars

DewPointsCompared == pc = "done" /\ op = "calculateDewPoint"

(* The dew points of the two humidities are numbers, strictly ordered as    *)
(* the humidities, none above the air temperature beyond the rounding of    *)
(* a thousandth of a degree, and the dew point at 100 % is the air          *)
(* temperature within that rounding.                                        *)
DewPointsOrdered ==
  /\ ~out.low.nan /\ ~out.high.nan
  /\ out.low.val < out.high.val
  /\ out.low.val <= args.T + 1 /\ out.high.val <= args.T + 1
  /\ args.rh2 = 100000 => Abs(out.high.val - args.T) <= 1

(* C19 as stated: for every air temperature T, calculateDewPoint is         *)
(* strictly increasing in RH over 0 < RH <= 100, returns T at RH = 100,     *)
(* and never exceeds T.                                                     *)
C19_Original == DewPointsCompared => DewPointsOrdered

(* C19: for every air temperature T above -243.12 degrees,                  *)
(* calculateDewPoint is strictly increasing in RH over 0 < RH <= 100,       *)
(* returns T at RH = 100 up to rounding, and never exceeds T; at            *)
(* T = -243.12 the result is NaN for every RH.                              *)
C19_DewPointIncreasingInHumidity ==
  DewPointsCompared =>
    IF MagnusC + args.T > 0 THEN DewPointsOrdered
    ELSE MagnusC + args.T = 0 => (out.low.nan /\ out.high.nan)

C19_Witness ==
  /\ DewPointsCompared
  /\ args.T = 25000 /\ args.rh1 = 60000 /\ args.rh2 = 100000
  /\ out.low.val < out.high.val /\ Abs(out.high.val - 25000) <= 1


(* ---- diameters of the solver functions ------------------------------------ *)
HeatLossPipeParams ==
  [Ti : {60000}, Te : {20000, 60000}, d : {-20000, 0, 20000, 50000},
   D : {-10000, 0, 20000, 50000, 80000}, L : {0, 1000}, lambda : {0, 40000},
   h : {0, 9 * MICRO}, alpha : {Undefined, Some(0), Some(100 * MICRO)}]

CallCalculateHeatLossPipe ==
  /\ CanCall
  /\ \E p \in HeatLossPipeParams :
       /\ op' = "calculateHeatLossPipe"
       /\ args' = p
       /\ out' = calculateHeatLossPipe(p)
  /\ pc' = "done"
  /\ UNCHANGED <<thickness, iters, results, hasCalculated>>

GeometryThicknessArgs ==
  { [tubeDiameter |-> d, ambientTemp |-> ta, mediumTemp |-> -5000, dewPoint |-> ta - off,
     material |-> "ROKAFLEX ST", h |-> h] :
    d \in {-25000, 0, 25000}, ta \in {10000, 25000}, off \in {-1000, 200, 8000},
    h \in {0, 9 * MICRO} }

(* calculateMinimumThickness as one call                                    *)
CallMinimumThicknessOnce ==
  /\ CanCall
  /\ \E a \in GeometryThicknessArgs :
       /\ op' = "calculateMinimumThickness"
       /\ args' = a
       /\ out' = calculateMinimumThickness(a)
  /\ pc' = "done"
  /\ UNCHANGED <<thickness, iters, results, hasCalculated>>

NextGeometry == CallCalculateHeatLossPipe \/ CallMinimumThicknessOnce
SpecGeometry == Init /\ [][NextGeometry]_vars

HeatLossPipeDone == pc = "done" /\ op = "calculateHeatLossPipe"

RaisedInvalidGeometry == ~out.returned /\ out.err = "InvalidGeometry"

(* C20: calculateHeatLossPipe raises an error instead of returning a        *)
(* number when d <= 0, D <= 0 or D <= d, an invalid-geometry error when     *)
(* its other parameters are valid, and calculateMinimumThickness raises     *)
(* an invalid-geometry error when tubeDiameter <= 0.                        *)
C20_NonPositiveDiameterRaises ==
  /\ (HeatLossPipeDone /\ (args.d <= 0 \/ args.D <= 0 \/ args.D <= args.d)) =>
       /\ ~out.returned
       /\ (args.L > 0 /\ args.lambda > 0 /\ args.h > 0 /\ args.alpha # Some(0))
            => RaisedInvalidGeometry
  /\ (pc = "done" /\ op = "calculateMinimumThickness" /\ args.tubeDiameter <= 0) =>
       RaisedInvalidGeometry


(* ---- validation of the calculators ---------------------------------------- *)
FailsCondensationValidation ==
  /\ op = "calculateCondensation"
  /\ args.relativeHumidity <= 0 \/ args.relativeHumidity > 100 * MILLI \/ args.h <= 0

FailsHeatLossValidation ==
  /\ op = "calculateHeatLoss"
  /\ args.insulationThickness <= 0 \/ args.pipeLength <= 0 \/ args.h <= 0

(* The call threw to its caller, or its catch block alerted a message.      *)
FailureRaised ==
  \/ ~out.returned
  \/ \E i \in DOMAIN out.trace : out.trace[i] = "alert"

(* C21: a pipe heat-loss or pipe condensation calculation whose input fails *)
(* the validation (insulation thickness <= 0, pipe length <= 0, h <= 0,     *)
(* relative humidity <= 0 or > 100) raises the failure with a message; it   *)
(* does not return silently.                                                *)
C21_ValidationFailureRaised ==
  (pc = "done" /\ (FailsCondensationValidation \/ FailsHeatLossValidation))
    => FailureRaised


(* ---- calculateCondensation, call after call ------------------------------- *)
(* Inputs that reach setResults and inputs for which                        *)
(* calculateMinimumThickness throws: a dew point at or within 0.4 degrees   *)
(* of the air temperature, a diameter of 0, a material name found on        *)
(* Object.prototype.                                                        *)
SessionArgs ==
  { [ambientTemp |-> ta, mediumTemp |-> -5000, tubeDiameter |-> d,
     material |-> m, h |-> 9 * MICRO, relativeHumidity |-> rh] :
    ta \in {10000, 25000}, d \in {0, 25000}, m \in {"ROKAFLEX ST", "constructor"},
    rh \in {30000, 60000, 99000, 100000} }

CalculateCondensationInSession ==
  /\ CanCall
  /\ \E s \in SessionArgs :
       \E r \in {calculateCondensation(s)} :
           /\ op' = "calculateCondensation"
           /\ args' = s
           /\ out' = r
           /\ IF r.info.set
              THEN results' = r.info.results /\ hasCalculated' = TRUE
              ELSE UNCHANGED <<results, hasCalculated>>
  /\ pc' = "done"
  /\ UNCHANGED <<thickness, iters>>

(* The component is rendered again with the state it has and waits for the  *)
(* next calculation.                                                        *)
NextCalculation ==
  /\ pc = "done"
  /\ pc' = "idle"
  /\ op' = "none"
  /\ args' = <<>>
  /\ out' = NoOutcome
  /\ UNCHANGED <<thickness, iters, results, hasCalculated>>

NextSession == CalculateCondensationInSession \/ NextCalculation
SpecSession == InitCondensation /\ [][NextSession]_vars

(* The error that calculateMinimumThickness throws for the arguments s,     *)
(* "none" when it returns.                                                  *)
ErrorRaisedFor(s) == MinimumThicknessAtHumidity(s, s.relativeHumidity).err

(* C22: when calculateMinimumThickness (calculateDewPoint never throws)     *)
(* raises during calculateCondensation, the stored results and the          *)
(* calculated flag keep the values they had before the call, and the alert  *)
(* shows the message of the raised error.                                   *)
C22_RaisedErrorLeavesResults ==
  [][(pc = "idle" /\ pc' = "done" /\ ErrorRaisedFor(args') # "none") =>
       /\ results' = results
       /\ hasCalculated' = hasCalculated
       /\ out'.info.alert = ErrorRaisedFor(args')]_vars

C22_Witness ==
  /\ pc = "done" /\ op = "calculateCondensation"
  /\ ~out.info.set /\ out.info.alert = "InvalidHumidity"
  /\ hasCalculated
  /\ results.minimumThickness > 0


(* ---- computeH with and without applySafetyFactor -------------------------- *)
(* The flags useSimplifiedFormula, useAdvancedAlgorithm,                    *)
(* useAdvancedSheetsAlgorithm, useKFlexAlgorithm that select each of the    *)
(* five branches.                                                           *)
BranchFlags ==
  { <<Undefined, Undefined, Undefined, Some(TRUE)>>,
    <<Undefined, Undefined, Some(TRUE), Some(FALSE)>>,
    <<Some(TRUE), Some(TRUE), Undefined, Undefined>>,
    <<Undefined, Some(FALSE), Undefined, Undefined>>,
    <<Some(FALSE), Undefined, Undefined, Undefined>> }

SafetyArgs ==
  { [ambientTemp |-> ta, mediumTemp |-> ta + MediumOffset(k), tubeDiameter |-> 25000,
     orientation |-> sf[1], emissivity |-> e,
     calculationType |-> sf[3], windSpeed |-> sf[4],
     insulationThickness |-> sf[2],
     useSimplifiedFormula |-> f[1], applySafetyFactor |-> Undefined,
     useAdvancedAlgorithm |-> f[2], useAdvancedSheetsAlgorithm |-> f[3],
     useKFlexAlgorithm |-> f[4], forCondensation |-> sf[5]] :
    ta \in HAmbientTemps, k \in {0, 2, 3}, e \in {0, 930000, 1100000},
    sf \in HSurfaces, f \in BranchFlags }

(* computeH for the same arguments with applySafetyFactor true, false and   *)
(* absent                                                                   *)
CompareSafetyFactor ==
  /\ CanCall
  /\ \E a \in SafetyArgs :
       /\ op' = "computeH:applySafetyFactor"
       /\ args' = a
       /\ out' = [on |-> computeH([a EXCEPT !.applySafetyFactor = Some(TRUE)]),
                  off |-> computeH([a EXCEPT !.applySafetyFactor = Some(FALSE)]),
                  absent |-> computeH(a)]
  /\ pc' = "done"
  /\ UNCHANGED <<thickness, iters, results, hasCalculated>>

NextSafety == CompareSafetyFactor
SpecSafety == Init /\ [][NextSafety]_vars

SafetyCompared == pc = "done" /\ op = "computeH:applySafetyFactor"

StandardParams ==
  [T_sup : {-20000, 10000, 10005, 25000, 60000, 100000}, T_amb : {10000, 25000},
   T_medium : {Undefined, Some(90000), Some(250000)},
   epsilon : {-100000, 0, 500000, 930000, MICRO}, applySafetyFactor : Flags]

CallCalculateHCoefficient ==
  /\ CanCall
  /\ \E p \in StandardParams :
       /\ op' = "calculateHCoefficient"
       /\ args' = p
       /\ out' = calculateHCoefficient(p.T_sup, p.T_amb, p.T_medium, p.epsilon,
                                       p.applySafetyFactor)
  /\ pc' = "done"
  /\ UNCHANGED <<thickness, iters, results, hasCalculated>>

NextStandard == CallCalculateHCoefficient
SpecStandard == Init /\ [][NextStandard]_vars

StandardDone == pc = "done" /\ op = "calculateHCoefficient"

(* C24: calculateHCoefficient with an emissivity in [0,1] returns a number; *)
(* its convective term is at least 1/0.13, its radiative term at most 6.5,  *)
(* and the result is their sum times 0.75, times 1.0 only when              *)
(* applySafetyFactor is false, rounded to 3 decimals.                       *)
C24_StandardTermsBounded ==
  (StandardDone /\ ~InvalidEmissivity(args.epsilon)) =>
    /\ out.returned /\ ~out.nan
    /\ out.info.alpha_conv >= MinAlphaConv
    /\ out.info.alpha_rad <= MaxAlphaRad
    /\ out.val = Round3(IF args.applySafetyFactor = Some(FALSE)
                        THEN out.info.alpha_conv + out.info.alpha_rad
                        ELSE ((out.info.alpha_conv + out.info.alpha_rad) * 3) \div 4)

C24_Witness ==
  /\ StandardDone
  /\ args.T_sup = 100000 /\ args.epsilon = 930000 /\ args.applySafetyFactor = Undefined
  /\ args.T_medium = Some(250000)
  /\ out.returned
  /\ out.info.alpha_rad = MaxAlphaRad
  /\ out.info.alpha_conv > MinAlphaConv


AdvancedPipeCall ==
  ComputeHDone /\ ComputeHBranch(args) = "calculateAdvancedH" /\ out.returned

(* C25: in calculateAdvancedH the convective term c is rounded up to the    *)
(* multiple c' of 0.001 with c <= c' < c + 0.001 before the radiative term  *)
(* is added, and the result is c' + radiative term rounded to the nearest   *)
(* 0.001.                                                                   *)
C25_ConvectionRoundedUp ==
  AdvancedPipeCall =>
    /\ out.info.alpha_conv % 1000 = 0
    /\ out.info.alpha_conv_raw <= out.info.alpha_conv
    /\ out.info.alpha_conv < out.info.alpha_conv_raw + 1000
    /\ out.val = Round3(out.info.alpha_conv + out.info.alpha_rad)

(* A call whose convective term rounds up where rounding to nearest would   *)
(* round down.                                                              *)
C25_Witness ==
  /\ AdvancedPipeCall
  /\ out.info.alpha_conv_raw % 1000 \in 1..499
  /\ out.info.alpha_conv = Round3(out.info.alpha_conv_raw) + 1000
  /\ out.val = Round3(out.info.alpha_conv + out.info.alpha_rad)


(* The convective term the doc comment of computeH promises for the         *)
(* simplified formulas, with the lower bound 1 / 0.13 that                  *)
(* calculateHCoefficient applies granted to each of them.                   *)
DocumentedAlphaConv(a, deltaT) ==
  Max(IF Default(a.calculationType, "inside") = "outside"
      THEN 5700000 + Mul(3800000, Default(a.windSpeed, 0))
      ELSE IF a.orientation = "vertical"
      THEN Mul(1420000, Pow(deltaT * MILLI, 250000))
      ELSE Mul(1320000, Pow(deltaT * MILLI, 330000)),
      MinAlphaConv)

SimplifiedCall ==
  /\ ComputeHDone /\ out.returned /\ ~out.nan
  /\ ComputeHBranch(args) = "calculateHCoefficient"

(* C26: with the simplified formulas the convective term used by computeH   *)
(* follows the surface set-up: 1.32 dT^0.33 inside horizontal,              *)
(* 1.42 dT^0.25 inside vertical, 5.7 + 3.8 v outside with wind speed v.     *)
C26_ConvectionFollowsSurface ==
  SimplifiedCall => out.info.alpha_conv = DocumentedAlphaConv(args, out.info.deltaT)


(* ---------------------------------------------------------------------- *)
(* computeH called twice on the same surface with two flag settings.       *)
(* ---------------------------------------------------------------------- *)
PrecedenceArgs ==
  { [ambientTemp |-> 25000, mediumTemp |-> 25000 + MediumOffset(k), tubeDiameter |-> 25000,
     orientation |-> sf[1], emissivity |-> 930000,
     calculationType |-> sf[3], windSpeed |-> sf[4],
     insulationThickness |-> sf[2],
     useSimplifiedFormula |-> f1, applySafetyFactor |-> Undefined,
     useAdvancedAlgorithm |-> f2, useAdvancedSheetsAlgorithm |-> f3,
     useKFlexAlgorithm |-> f4, forCondensation |-> sf[5]] :
    k \in {2, 3}, sf \in {s \in HSurfaces : s[4] = Undefined},
    f1 \in Flags, f2 \in Flags, f3 \in Flags, f4 \in Flags }

(* The flag settings of the second call: each flag given explicitly.        *)
SecondFlags == {Some(TRUE), Some(FALSE)}

WithFlags(a, f) ==
  [a EXCEPT !.useSimplifiedFormula = f[1], !.useAdvancedAlgorithm = f[2],
            !.useAdvancedSheetsAlgorithm = f[3], !.useKFlexAlgorithm = f[4]]

CompareFlags ==
  /\ CanCall
  /\ \E a \in PrecedenceArgs, f \in SecondFlags \X SecondFlags \X SecondFlags \X SecondFlags :
       /\ op' = "computeH:flags"
       /\ args' = [first |-> a, second |-> WithFlags(a, f)]
       /\ out' = [first |-> computeH(a), second |-> computeH(WithFlags(a, f))]
  /\ pc' = "done"
  /\ UNCHANGED <<thickness, iters, results, hasCalculated>>

NextPrecedence == CompareFlags
SpecPrecedence == Init /\ [][NextPrecedence]_vars

FlagsCompared == op = "computeH:flags" /\ pc = "done"

(* The flags of a call in order of precedence, highest first.              *)
FlagsByPrecedence(a) ==
  <<a.useKFlexAlgorithm, a.useAdvancedSheetsAlgorithm, a.useAdvancedAlgorithm,
    a.useSimplifiedFormula>>

AlgorithmsByPrecedence ==
  <<"calculateKFlexH", "calculateAdvancedH_Sheets", "calculateAdvancedH",
    "calculateHCoefficient">>

(* Position of the first flag that is set; the last position when none of  *)
(* the first three is.                                                     *)
DecidingFlag(a) ==
  IF \E i \in 1..3 : FlagsByPrecedence(a)[i] = Some(TRUE)
  THEN CHOOSE i \in 1..3 :
         /\ FlagsByPrecedence(a)[i] = Some(TRUE)
         /\ \A j \in 1..(i - 1) : FlagsByPrecedence(a)[j] # Some(TRUE)
  ELSE 4

AgreeDownTo(a, b, i) ==
  \A j \in 1..i : FlagsByPrecedence(a)[j] = FlagsByPrecedence(b)[j]

(* C27: the algorithm is the one of the first flag set in the order        *)
(* useKFlexAlgorithm, useAdvancedSheetsAlgorithm, useAdvancedAlgorithm,    *)
(* useSimplifiedFormula, and two calls that differ only in flags of lower  *)
(* precedence than the deciding one return the same coefficient.           *)
C27_FlagPrecedence ==
  FlagsCompared =>
    /\ DecidingFlag(args.first) < 4 =>
         AlgorithmsExecuted(out.first.trace) =
           {AlgorithmsByPrecedence[DecidingFlag(args.first)]}
    /\ (DecidingFlag(args.first) = 4 /\ args.first.useSimplifiedFormula # Some(FALSE)) =>
         AlgorithmsExecuted(out.first.trace) = {"calculateHCoefficient"}
    /\ AgreeDownTo(args.first, args.second, DecidingFlag(args.first)) =>
         SameOutcome(out.first, out.second)

(* useAdvancedSheetsAlgorithm decides while the two calls disagree on both *)
(* lower flags, each of which alone would select another algorithm.        *)
C27_Witness ==
  /\ FlagsCompared
  /\ DecidingFlag(args.first) = 2
  /\ args.first.useAdvancedAlgorithm = Some(TRUE)
  /\ args.second.useAdvancedAlgorithm = Some(FALSE)
  /\ args.first.useSimplifiedFormula = Some(TRUE)
  /\ args.second.useSimplifiedFormula = Some(FALSE)
  /\ AgreeDownTo(args.first, args.second, 2)
  /\ out.first.returned /\ ~out.first.nan
  /\ SameOutcome(out.first, out.second)
  /\ AlgorithmsExecuted(out.second.trace) = {"calculateAdvancedH_Sheets"}


(* The ladder of the call and the thicknesses of it whose per-metre heat   *)
(* loss is at most the target.                                             *)
LadderOf(a) ==
  {getAvailableThicknesses(a.tubeDiameter)[i] :
     i \in DOMAIN getAvailableThicknesses(a.tubeDiameter)}

HeatLossAt(a, t) ==
  HeatFlow(a.mediumTemp - a.ambientTemp,
           RecommendedResistances(a, interpolateLambda(a.ambientTemp, a.material).val,
                                  t).R_total)

LargestOf(S) == CHOOSE t \in S : \A u \in S : u <= t

(* C28: getRecommendedThickness returns the smallest thickness of the      *)
(* ladder of the diameter whose heat loss is <= 15 W/m, the largest of the *)
(* ladder if there is none, and so always a member of the ladder.          *)
C28_SmallestSufficientOrLargest ==
  RecommendedDone =>
    /\ out.val \in LadderOf(args)
    /\ \A t \in LadderOf(args) : t < out.val => HeatLossAt(args, t) > TargetHeatLoss
    /\ \/ HeatLossAt(args, out.val) <= TargetHeatLoss
       \/ out.val = LargestOf(LadderOf(args))

(* A thickness in the middle of a stock ladder is returned: two smaller    *)
(* ones lose more than the target.                                         *)
C28_Witness ==
  /\ RecommendedDone
  /\ FindTube(args.tubeDiameter) # 0
  /\ Cardinality({t \in LadderOf(args) : t < out.val}) >= 2
  /\ out.val # LargestOf(LadderOf(args))
  /\ HeatLossAt(args, out.val) <= TargetHeatLoss


ZeroDeltaTCalculation ==
  /\ HeatLossDone /\ out.returned /\ out.info.set
  /\ args.mediumTemp = args.ambientTemp

(* C29: for a medium temperature equal to the ambient temperature and      *)
(* positive resistances the heat loss is 0, the percentage reduction       *)
(* returned by calculateHeatLosses is a finite number and the thermal      *)
(* transmittance reported by the pipe heat-loss calculation is finite.     *)
C29_ZeroDeltaTFinite ==
  ZeroDeltaTCalculation =>
    /\ results.heatLoss = 0
    /\ "decrease" \notin results.nan
    /\ "thermalTransmittance" \notin results.nan


(* ---------------------------------------------------------------------- *)
(* calculateMinimumThickness for a medium around and above the ambient     *)
(* temperature: diameters 6, 25 and 114.3 mm, the dew point 0.2, 0.4 and   *)
(* 8 degrees below the ambient temperature (8 degrees only for the medium  *)
(* colder than the air).                                                   *)
(* ---------------------------------------------------------------------- *)
WarmMediumOffsets == {-15000, 0, 10, 5000, 65000}

WarmMediumArgs ==
  { a \in { [tubeDiameter |-> d, ambientTemp |-> ta, mediumTemp |-> ta + dm,
             dewPoint |-> ta - off, material |-> m, h |-> h] :
             d \in {6000, 25000, 114300}, ta \in {10000, 25000}, dm \in WarmMediumOffsets,
             off \in {200, SafetyMargin, 8000}, m \in {"ROKAFLEX ST", "UNKNOWN"},
             h \in {2 * MICRO, 9 * MICRO, 25 * MICRO} } :
      a.mediumTemp >= a.ambientTemp \/ a.dewPoint = a.ambientTemp - 8000 }

CallMinimumThicknessWarm ==
  /\ CanCall
  /\ \E a \in WarmMediumArgs :
       /\ op' = "calculateMinimumThickness"
       /\ args' = a
       /\ out' = calculateMinimumThickness(a)
  /\ pc' = "done"
  /\ UNCHANGED <<thickness, iters, results, hasCalculated>>

NextWarm == CallMinimumThicknessWarm
SpecWarm == Init /\ [][NextWarm]_vars

WarmMediumCall ==
  /\ MinimumThicknessDone
  /\ MinimumThicknessCheck(args) = "ok"
  /\ args.mediumTemp >= args.ambientTemp

(* Scan thicknesses, in tenths of a millimetre, at which the surface       *)
(* temperature is recomputed.                                              *)
ScanSample == {ScanStart, 2, 10, 130, 500, ScanCeiling}

(* C30: when the checks of calculateMinimumThickness pass and the medium   *)
(* is not colder than the air, the surface temperature at every scanned    *)
(* thickness is >= ambientTemp >= dewPoint + 0.4, and the function returns *)
(* the first scan step, 0.1 mm, whatever the diameter, material and h.     *)
C30_WarmMediumReturnsFirstStep ==
  WarmMediumCall =>
    /\ args.ambientTemp >= args.dewPoint + SafetyMargin
    /\ \A th \in ScanSample :
         SurfaceTemp(args, ScanLambda(args), th) >= args.ambientTemp
    /\ out.returned
    /\ out.val = ScanStart

(* A medium 65 degrees above the air with the target exactly at the        *)
(* ambient temperature, on the largest pipe.                               *)
C30_Witness ==
  /\ WarmMediumCall
  /\ args.mediumTemp = args.ambientTemp + 65000
  /\ args.dewPoint + SafetyMargin = args.ambientTemp
  /\ args.tubeDiameter = 114300
  /\ args.material = "UNKNOWN"
  /\ out.returned
  /\ out.val = ScanStart
  /\ SurfaceTemp(args, ScanLambda(args), ScanCeiling) < args.mediumTemp

====
